---- MODULE Spec2Model ----
(***************************************************************************)
(* Model of the validated repository layer of the project-tracking tool:   *)
(* ProjectManagementRepository (design_pattern/repository/repository.py),  *)
(* the row factories (design_pattern/factory/factory.py) and the SQLite    *)
(* schema the repository creates.                                          *)
(*                                                                         *)
(* Representation of Python / SQL values:                                  *)
(*   - a str is a sequence of one-character strings, "" is << >>;          *)
(*   - None (SQL NULL) in a text position is the value None;               *)
(*   - None (SQL NULL) in an integer position is the value NoneInt, which  *)
(*     no call of the model passes as a number;                            *)
(*   - a storage row is a tuple in the column order of the schema;         *)
(*   - a table is the set of its rows.                                     *)
(***************************************************************************)
EXTENDS Integers, Sequences, FiniteSets, TLC

VARIABLES
    Person, Milestone, Task,  \* the three tables
    sqlite_sequence,          \* SQLite's AUTOINCREMENT bookkeeping, per table
    call,                     \* the call being answered, or [op |-> "idle"]
    outcome,                  \* what that call returned or raised
    before,                   \* history: the store when that call was made
    ever,                     \* history: every id each table has handed out
    pc,                       \* per caller: the call it is in and where in it
    connections               \* per caller: the connections its call opened

vars == <<Person, Milestone, Task, sqlite_sequence, call, outcome, before, ever,
          pc, connections>>

\* the state of the callers that work connection by connection
sessions == <<pc, connections>>

tables == <<Person, Milestone, Task, sqlite_sequence>>

(***************************************************************************)
(* Bound of the model: the number of rows ever inserted, all tables        *)
(* together.                                                               *)
(***************************************************************************)
MaxRows == 4

(***************************************************************************)
(* Python values                                                           *)
(***************************************************************************)
None == <<"None">>
NoneInt == -1

\* truthiness of a str-or-None value: None and "" are falsy
TruthyStr(s) == s # None /\ s # << >>

\* truthiness of an int-or-None value: None and 0 are falsy
TruthyInt(i) == i # NoneInt /\ i # 0

\* `a if a is not None else b`: only None is replaced, an empty string is kept
OrStr_NotNone(a, b) == IF a # None THEN a ELSE b

\* Python's `a or b` on str-or-None operands
OrStr(a, b) == IF TruthyStr(a) THEN a ELSE b

\* Python's `a or b` on int-or-None operands
OrInt(a, b) == IF TruthyInt(a) THEN a ELSE b

(***************************************************************************)
(* Character classes of the two regular expressions                        *)
(***************************************************************************)
Digits == {"0", "1", "2", "3", "4", "5", "6", "7", "8", "9"}

Letters ==
    {"a", "b", "c", "d", "e", "f", "g", "h", "i", "j", "k", "l", "m",
     "n", "o", "p", "q", "r", "s", "t", "u", "v", "w", "x", "y", "z",
     "A", "B", "C", "D", "E", "F", "G", "H", "I", "J", "K", "L", "M",
     "N", "O", "P", "Q", "R", "S", "T", "U", "V", "W", "X", "Y", "Z"}

\* [a-zA-Z0-9._%+-]
EmailLocalChars == Letters \cup Digits \cup {".", "_", "%", "+", "-"}

\* [a-zA-Z0-9.-]
EmailDomainChars == Letters \cup Digits \cup {".", "-"}

AllIn(s, lo, hi, cls) == \A k \in lo..hi : s[k] \in cls

\* `$` of re.match: the end of the text, or just before one final newline
DollarEnds(s) ==
    {Len(s)} \cup (IF Len(s) > 0 /\ s[Len(s)] = "\n" THEN {Len(s) - 1} ELSE {})

\* EMAIL_FORMAT = ^[a-zA-Z0-9._%+-]+@[a-zA-Z0-9.-]+\.[a-zA-Z]{2,}$
EMAIL_FORMAT(s) ==
    \E e \in DollarEnds(s) :
        \E i \in 1..e : \E j \in 1..e :
            /\ s[i] = "@"
            /\ s[j] = "."
            /\ i >= 2
            /\ AllIn(s, 1, i - 1, EmailLocalChars)
            /\ j >= i + 2
            /\ AllIn(s, i + 1, j - 1, EmailDomainChars)
            /\ e - j >= 2
            /\ AllIn(s, j + 1, e, Letters)

\* DATE_FORMAT = ^\d{4}-\d{2}-\d{2}$
DATE_FORMAT(s) ==
    \E e \in DollarEnds(s) :
        /\ e = 10
        /\ AllIn(s, 1, 4, Digits)
        /\ s[5] = "-"
        /\ AllIn(s, 6, 7, Digits)
        /\ s[8] = "-"
        /\ AllIn(s, 9, 10, Digits)

DigitValue(c) ==
    CASE c = "0" -> 0 [] c = "1" -> 1 [] c = "2" -> 2 [] c = "3" -> 3
      [] c = "4" -> 4 [] c = "5" -> 5 [] c = "6" -> 6 [] c = "7" -> 7
      [] c = "8" -> 8 [] c = "9" -> 9

\* a leap year rule without the century exception
IsLeap_EveryFourth(y) == y % 4 = 0

IsLeap(y) == (y % 4 = 0 /\ y % 100 # 0) \/ y % 400 = 0

DaysInMonth(y, m) ==
    IF m = 2 THEN (IF IsLeap(y) THEN 29 ELSE 28)
    ELSE IF m \in {4, 6, 9, 11} THEN 30 ELSE 31

\* a parse that checks the shape and not the calendar
strptime_NoCalendar(s) == Len(s) = 10

\* datetime.strptime(s, "%Y-%m-%d") succeeds; s has already matched
\* DATE_FORMAT, so its first ten characters are dddd-dd-dd.  A trailing
\* newline is unconverted data; month 00 or 13.., day 00 or 32.. do not match
\* the directive; a day past the month's end or the year 0 is rejected when
\* the date is built.
strptime(s) ==
    LET y == 1000 * DigitValue(s[1]) + 100 * DigitValue(s[2])
             + 10 * DigitValue(s[3]) + DigitValue(s[4])
        m == 10 * DigitValue(s[6]) + DigitValue(s[7])
        d == 10 * DigitValue(s[9]) + DigitValue(s[10])
    IN  /\ Len(s) = 10
        /\ y >= 1
        /\ m \in 1..12
        /\ d \in 1..DaysInMonth(y, m)

(***************************************************************************)
(* Outcomes of a call: a returned value or a raised exception              *)
(***************************************************************************)
Return(v) == [kind |-> "return", value |-> v]

Raise(t, m) == [kind |-> "raise", type |-> t, msg |-> m]

NoneValue == [type |-> "NoneType"]

Ok == Return(NoneValue)

Raised(o) == o.kind = "raise"

\* the first raised outcome of a sequence of checks run in order, else Ok
RECURSIVE FirstRaise(_)
FirstRaise(checks) ==
    IF checks = << >> THEN Ok
    ELSE IF Raised(Head(checks)) THEN Head(checks)
    ELSE FirstRaise(Tail(checks))

(***************************************************************************)
(* Validation rules                                                        *)
(***************************************************************************)
VALID_STATUSES == {<<"T", "o", "D", "o">>,
                   <<"I", "n", "P", "r", "o", "g", "r", "e", "s", "s">>,
                   <<"D", "o", "n", "e">>}

VALID_PRIORITIES == {<<"H", "i", "g", "h">>,
                     <<"M", "e", "d", "i", "u", "m">>,
                     <<"L", "o", "w">>}

\* an email check that lets every value through
_validate_email_Accepts(email) == Ok

\* re.match raises TypeError on an email that is None, before any comparison
_validate_email(email) ==
    IF email = None
    THEN Raise("TypeError", "expected string or bytes-like object")
    ELSE IF ~EMAIL_FORMAT(email) THEN Raise("ValueError", "Invalid email format")
    ELSE Ok

_validate_date(date_str) ==
    IF ~DATE_FORMAT(date_str) THEN Raise("ValueError", "Invalid date format")
    ELSE IF ~strptime(date_str) THEN Raise("ValueError", "Invalid date")
    ELSE Ok

\* a status check that lets every status through
_validate_status_Accepts(status) == Ok

_validate_status(status) ==
    IF status \notin VALID_STATUSES THEN Raise("ValueError", "Invalid status")
    ELSE Ok

\* a priority check that lets every value through
_validate_priority_Accepts(priority) == Ok

_validate_priority(priority) ==
    IF priority \notin VALID_PRIORITIES THEN Raise("ValueError", "Invalid priority")
    ELSE Ok

\* an existence check that finds a row whatever the value
_validate_foreign_key_Passes(table, value) == Ok

\* SELECT 1 FROM table WHERE id = value; a NULL value compares equal to no row
\* (the column is "id" in every call the repository makes)
_validate_foreign_key(table, value) ==
    LET rows == CASE table = "Person" -> Person
                  [] table = "Milestone" -> Milestone
                  [] table = "Task" -> Task
        text == CASE table = "Person" -> "No Person found with id"
                  [] table = "Milestone" -> "No Milestone found with id"
                  [] table = "Task" -> "No Task found with id"
    IN  IF value = NoneInt \/ ~(\E row \in rows : row[1] = value)
        THEN Raise("LookupError", text)
        ELSE Ok

(***************************************************************************)
(* Row Mapper: design_pattern/factory/factory.py and logic/entities.py      *)
(* A row is a tuple; Python's row[k] is row[k + 1] here.                   *)
(***************************************************************************)
PersonEntity(id, name, email, role) ==
    [type |-> "Person", id |-> id, name |-> name, email |-> email, role |-> role]

TaskEntity(id, title, description, status, priority, start_date, due_date, person_id, milestone_id) ==
    [type |-> "Task", id |-> id, title |-> title, description |-> description,
     status |-> status, priority |-> priority, start_date |-> start_date,
     due_date |-> due_date, person_id |-> person_id,
     milestone_id |-> milestone_id]

MilestoneEntity(id, name) ==
    [type |-> "Milestone", id |-> id, name |-> name]

\* a mapping that takes name and email from each other's column
PersonFactory_SwappedFields(row) == PersonEntity(row[1], row[3], row[2], row[4])

PersonFactory(row) == PersonEntity(row[1], row[2], row[3], row[4])

\* a mapping that takes start_date and due_date from each other's column
TaskFactory_SwappedDates(row) ==
    TaskEntity(row[1], row[2], row[3], row[4], row[5], row[7], row[6], row[8], row[9])

TaskFactory(row) ==
    TaskEntity(row[1], row[2], row[3], row[4], row[5], row[6], row[7],
               row[8], row[9])

MilestoneFactory(row) == MilestoneEntity(row[1], row[2])

(***************************************************************************)
(* Storage: the schema of _initialize_database and the statements the      *)
(* repository runs against it.  A statement yields                         *)
(*   [error, rows, lastrowid]: error = "" when it ran, else SQLite's      *)
(*   IntegrityError text, and then rows is the table as it was.            *)
(***************************************************************************)
Max(a, b) == IF a >= b THEN a ELSE b

RECURSIVE MaxOf(_)
MaxOf(S) ==
    IF S = {} THEN 0
    ELSE LET x == CHOOSE y \in S : TRUE IN Max(x, MaxOf(S \ {x}))

Ids(table) == {row[1] : row \in table}

\* INTEGER PRIMARY KEY without AUTOINCREMENT: one more than the largest id
\* the table holds
NewRowid_NoAutoincrement(table, seq) == MaxOf(Ids(table)) + 1

\* INTEGER PRIMARY KEY AUTOINCREMENT: one more than the largest id the table
\* ever held (sqlite_sequence) and than the largest it holds
NewRowid(table, seq) == Max(seq, MaxOf(Ids(table))) + 1

Ran(rows, id) == [error |-> "", rows |-> rows, lastrowid |-> id]

Failed(rows, text) == [error |-> text, rows |-> rows, lastrowid |-> 0]

\* SELECT * FROM <table> WHERE id = ?  (fetchone: the row, or no row)
SelectById(table, id) == {row \in table : id # NoneInt /\ row[1] = id}

\* the insert into a Person table whose email column is not UNIQUE
InsertPerson_NoUnique(name, email, role) ==
    IF name = None THEN Failed(Person, "NOT NULL constraint failed: Person.name")
    ELSE LET id == NewRowid(Person, sqlite_sequence.Person)
         IN  Ran(Person \cup {<<id, name, email, role>>}, id)

\* INSERT INTO Person (name, email, role) VALUES (?, ?, ?)
\*   name TEXT NOT NULL, email TEXT NOT NULL UNIQUE, role TEXT
InsertPerson(name, email, role) ==
    IF name = None THEN Failed(Person, "NOT NULL constraint failed: Person.name")
    ELSE IF email = None
    THEN Failed(Person, "NOT NULL constraint failed: Person.email")
    ELSE IF \E row \in Person : row[3] = email
    THEN Failed(Person, "UNIQUE constraint failed: Person.email")
    ELSE LET id == NewRowid(Person, sqlite_sequence.Person)
         IN  Ran(Person \cup {<<id, name, email, role>>}, id)

\* the update of a Person table whose email column is not UNIQUE
UpdatePerson_NoUnique(name, email, role, person_id) ==
    Ran({IF row[1] = person_id THEN <<person_id, name, email, role>>
         ELSE row : row \in Person}, 0)

\* UPDATE Person SET name = ?, email = ?, role = ? WHERE id = ?
UpdatePerson(name, email, role, person_id) ==
    IF SelectById(Person, person_id) = {} THEN Ran(Person, 0)
    ELSE IF name = None
    THEN Failed(Person, "NOT NULL constraint failed: Person.name")
    ELSE IF email = None
    THEN Failed(Person, "NOT NULL constraint failed: Person.email")
    ELSE IF \E row \in Person : row[1] # person_id /\ row[3] = email
    THEN Failed(Person, "UNIQUE constraint failed: Person.email")
    ELSE Ran({IF row[1] = person_id THEN <<person_id, name, email, role>>
              ELSE row : row \in Person}, 0)

\* INSERT INTO Milestone (name) VALUES (?)     name TEXT NOT NULL
InsertMilestone(name) ==
    IF name = None
    THEN Failed(Milestone, "NOT NULL constraint failed: Milestone.name")
    ELSE LET id == NewRowid(Milestone, sqlite_sequence.Milestone)
         IN  Ran(Milestone \cup {<<id, name>>}, id)

\* an UPDATE without its WHERE clause
UpdateMilestone_NoWhere(name, milestone_id) ==
    IF name = None
    THEN Failed(Milestone, "NOT NULL constraint failed: Milestone.name")
    ELSE Ran({<<row[1], name>> : row \in Milestone}, 0)

\* UPDATE Milestone SET name = ? WHERE id = ?
UpdateMilestone(name, milestone_id) ==
    IF SelectById(Milestone, milestone_id) = {} THEN Ran(Milestone, 0)
    ELSE IF name = None
    THEN Failed(Milestone, "NOT NULL constraint failed: Milestone.name")
    ELSE Ran({IF row[1] = milestone_id THEN <<milestone_id, name>>
              ELSE row : row \in Milestone}, 0)

\* FOREIGN KEY (col) REFERENCES parent(id), with PRAGMA foreign_keys = ON:
\* a NULL reference is allowed, any other value must be a parent id
ForeignKeyHolds(value, parent) == value = NoneInt \/ value \in Ids(parent)

\* INSERT INTO Task (title, ..., person_id, milestone_id) VALUES (...)
\*   title TEXT NOT NULL, both references checked by the foreign keys
InsertTask(title, description, status, priority, start_date, due_date, person_id, milestone_id) ==
    IF title = None THEN Failed(Task, "NOT NULL constraint failed: Task.title")
    ELSE IF ~ForeignKeyHolds(person_id, Person)
            \/ ~ForeignKeyHolds(milestone_id, Milestone)
    THEN Failed(Task, "FOREIGN KEY constraint failed")
    ELSE LET id == NewRowid(Task, sqlite_sequence.Task)
         IN  Ran(Task \cup {<<id, title, description, status, priority,
                              start_date, due_date, person_id, milestone_id>>},
                 id)

\* an UPDATE that leaves the milestone_id column out of its SET list
UpdateTask_SkipsMilestone(title, description, status, priority, start_date, due_date, person_id, milestone_id, task_id) ==
    IF SelectById(Task, task_id) = {} THEN Ran(Task, 0)
    ELSE IF ~ForeignKeyHolds(person_id, Person)
    THEN Failed(Task, "FOREIGN KEY constraint failed")
    ELSE Ran({IF row[1] = task_id
              THEN <<task_id, title, description, status, priority,
                     start_date, due_date, person_id, row[9]>>
              ELSE row : row \in Task}, 0)

\* UPDATE Task SET title = ?, ..., person_id = ?, milestone_id = ? WHERE id = ?
UpdateTask(title, description, status, priority, start_date, due_date, person_id, milestone_id, task_id) ==
    IF SelectById(Task, task_id) = {} THEN Ran(Task, 0)
    ELSE IF title = None
    THEN Failed(Task, "NOT NULL constraint failed: Task.title")
    ELSE IF ~ForeignKeyHolds(person_id, Person)
            \/ ~ForeignKeyHolds(milestone_id, Milestone)
    THEN Failed(Task, "FOREIGN KEY constraint failed")
    ELSE Ran({IF row[1] = task_id
              THEN <<task_id, title, description, status, priority,
                     start_date, due_date, person_id, milestone_id>>
              ELSE row : row \in Task}, 0)

\* the delete without the cascade: the person's tasks stay
DeletePerson_NoCascade(person_id) == Task

\* a cascade that is not confined to the person's tasks
DeletePerson_AllTasks(person_id) == {}

\* DELETE FROM Person WHERE id = ?, and what
\* FOREIGN KEY (person_id) REFERENCES Person(id) ON DELETE CASCADE does to Task
DeletePersonCascade(person_id) == {row \in Task : row[8] # person_id}

\* ON DELETE CASCADE in place of ON DELETE SET NULL
DeleteMilestone_Cascade(milestone_id) == {row \in Task : row[9] # milestone_id}

\* DELETE FROM Milestone WHERE id = ?, and what
\* FOREIGN KEY (milestone_id) REFERENCES Milestone(id) ON DELETE SET NULL
\* does to Task
DeleteMilestoneSetNull(milestone_id) ==
    {IF row[9] = milestone_id
     THEN <<row[1], row[2], row[3], row[4], row[5], row[6], row[7], row[8],
            NoneInt>>
     ELSE row : row \in Task}

DeleteById(table, id) == {row \in table : row[1] # id}

\* the columns of the three tables, in the order of their CREATE TABLE
Columns ==
    [Person |-> <<"id", "name", "email", "role">>,
     Milestone |-> <<"id", "name">>,
     Task |-> <<"id", "title", "description", "status", "priority",
                "start_date", "due_date", "person_id", "milestone_id">>]

ColumnIndex(table, column) ==
    CHOOSE k \in 1..Len(Columns[table]) : Columns[table][k] = column

\* the columns declared INTEGER; the others are TEXT
IntegerColumns == {"id", "person_id", "milestone_id"}

\* the characters of the values, in the order of their codes: TEXT columns
\* have the BINARY collation, which compares the bytes
ASCII ==
    <<" ", "%", "+", "-", ".",
      "0", "1", "2", "3", "4", "5", "6", "7", "8", "9", "@",
      "A", "B", "C", "D", "E", "F", "G", "H", "I", "J", "K", "L", "M",
      "N", "O", "P", "Q", "R", "S", "T", "U", "V", "W", "X", "Y", "Z", "_",
      "a", "b", "c", "d", "e", "f", "g", "h", "i", "j", "k", "l", "m",
      "n", "o", "p", "q", "r", "s", "t", "u", "v", "w", "x", "y", "z">>

Code(c) == CHOOSE i \in 1..Len(ASCII) : ASCII[i] = c

\* a < b for two texts: at the first place they differ a ends or has the
\* smaller character
TextLess(a, b) ==
    \E i \in 1..Len(b) :
        /\ \A j \in 1..(i - 1) : j <= Len(a) /\ a[j] = b[j]
        /\ i > Len(a) \/ Code(a[i]) < Code(b[i])

IsNull(v, integer) == IF integer THEN v = NoneInt ELSE v = None

\* x <= y in the order of ORDER BY ... ASC: NULL first, then the integers by
\* value or the texts by BINARY collation
SqlLeq(x, y, integer) ==
    IF IsNull(x, integer) THEN TRUE
    ELSE IF IsNull(y, integer) THEN FALSE
    ELSE IF integer THEN x <= y
    ELSE x = y \/ TextLess(x, y)

\* the sequences that hold every row of a set once
RECURSIVE Orderings(_)
Orderings(rows) ==
    IF rows = {} THEN {<< >>}
    ELSE UNION {{<<row>> \o rest : rest \in Orderings(rows \ {row})} :
                  row \in rows}

\* a SELECT without ORDER BY: the rows in whatever order
OrderBy_Unordered(rows, table, column) == Orderings(rows)

\* SELECT ... ORDER BY column: the rows in ascending order of the column;
\* SQL leaves the order of rows with equal values open
OrderBy(rows, table, column) ==
    LET k == ColumnIndex(table, column)
        integer == column \in IntegerColumns
    IN  {s \in Orderings(rows) :
            \A i \in 1..(Len(s) - 1) : SqlLeq(s[i][k], s[i + 1][k], integer)}

\* sqlite3.connect in _get_connection: db_ok says whether the database file
\* can be opened during the call
_get_connection(db_ok) ==
    IF db_ok THEN Ok ELSE Raise("sqlite3.Error", "Database connection error")

\* the number of rows ever inserted
RowsInserted ==
    sqlite_sequence.Person + sqlite_sequence.Milestone + sqlite_sequence.Task

(***************************************************************************)
(* The values the calls of the model are made with                         *)
(***************************************************************************)
Empty == <<>>

Ada == <<"A", "d", "a">>

Bob == <<"B", "o", "b">>

Engineer == <<"E", "n", "g", "i", "n", "e", "e", "r">>

Manager == <<"M", "a", "n", "a", "g", "e", "r">>

AdaMail == <<"a", "d", "a", "@", "e", "x", "a", "m", "p", "l", "e", ".", "c", "o", "m">>

BobMail == <<"b", "o", "b", "@", "e", "x", "a", "m", "p", "l", "e", ".", "c", "o", "m">>

BadMail == <<"a", "d", "a", "@", "e", "x", "a", "m", "p", "l", "e">>

NoAtMail == <<"a", "d", "a", ".", "e", "x", "a", "m", "p", "l", "e", ".", "c", "o", "m">>

Beta == <<"B", "e", "t", "a", " ", "R", "e", "l", "e", "a", "s", "e">>

GA == <<"G", "A">>

WriteSpec == <<"W", "r", "i", "t", "e", " ", "s", "p", "e", "c">>

Review == <<"R", "e", "v", "i", "e", "w">>

Notes == <<"n", "o", "t", "e", "s">>

ToDo == <<"T", "o", "D", "o">>

InProgress == <<"I", "n", "P", "r", "o", "g", "r", "e", "s", "s">>

Done == <<"D", "o", "n", "e">>

Blocked == <<"B", "l", "o", "c", "k", "e", "d">>

High == <<"H", "i", "g", "h">>

Medium == <<"M", "e", "d", "i", "u", "m">>

Low == <<"L", "o", "w">>

Urgent == <<"U", "r", "g", "e", "n", "t">>

D20250101 == <<"2", "0", "2", "5", "-", "0", "1", "-", "0", "1">>

D20250110 == <<"2", "0", "2", "5", "-", "0", "1", "-", "1", "0">>

D20240229 == <<"2", "0", "2", "4", "-", "0", "2", "-", "2", "9">>

D20240230 == <<"2", "0", "2", "4", "-", "0", "2", "-", "3", "0">>

D20241301 == <<"2", "0", "2", "4", "-", "1", "3", "-", "0", "1">>

D2025_1_1 == <<"2", "0", "2", "5", "-", "1", "-", "1">>

(***************************************************************************)
(* Repository operations.  The repository is single-threaded and           *)
(* synchronous: the caller makes one call at a time.  Each action is one   *)
(* whole call, made while no call is being answered: it records the call   *)
(* and its arguments in `call`, what the call returned or raised in        *)
(* `outcome`, the store it was made on in `before`, and leaves the tables  *)
(* as the call's statements leave them.  CallerContinues is the caller     *)
(* taking the answer.  A call that would insert a row past MaxRows is not  *)
(* made.                                                                   *)
(***************************************************************************)
Wrap(prefix, text) == Raise("sqlite3.Error", prefix \o ": " \o text)

CanInsert == RowsInserted < MaxRows

Bump(table, id) == [sqlite_sequence EXCEPT ![table] = id]

Store ==
    [Person |-> Person, Milestone |-> Milestone, Task |-> Task,
     sqlite_sequence |-> sqlite_sequence, ever |-> ever]

Idle == [op |-> "idle"]

\* the callers of the repository
Callers == {1, 2}

\* a call is made: nothing is being answered, and the store is remembered
Begin == call = Idle /\ before' = Store /\ UNCHANGED sessions

Handed(table, id) == [ever EXCEPT ![table] = @ \cup {id}]

\* ---- Person ----

add_person_outcome(name, email, role, db_ok) ==
    LET checked == FirstRaise(<<_validate_email(email), _get_connection(db_ok)>>)
        ins == InsertPerson(name, email, role)
    IN  IF Raised(checked) THEN checked
        ELSE IF ins.error # "" THEN Wrap("Person insertion error", ins.error)
        ELSE Return(PersonFactory(<<ins.lastrowid, name, email, role>>))

add_person(name, email, role, db_ok) ==
    LET out == add_person_outcome(name, email, role, db_ok)
        ins == InsertPerson(name, email, role)
    IN  /\ Begin
        /\ Raised(out) \/ CanInsert
        /\ call' = [op |-> "add_person", name |-> name, email |-> email,
                    role |-> role, db_ok |-> db_ok]
        /\ outcome' = out
        /\ Person' = IF Raised(out) THEN Person ELSE ins.rows
        /\ sqlite_sequence' = IF Raised(out) THEN sqlite_sequence
                              ELSE Bump("Person", ins.lastrowid)
        /\ ever' = IF Raised(out) THEN ever ELSE Handed("Person", ins.lastrowid)
        /\ UNCHANGED <<Milestone, Task>>

get_person_outcome(person_id, db_ok) ==
    LET conn == _get_connection(db_ok)
        row == SelectById(Person, person_id)
    IN  IF Raised(conn) THEN Wrap("Person retrieval error", conn.msg)
        ELSE IF row = {} THEN Raise("LookupError", "Person with id not found")
        ELSE Return(PersonFactory(CHOOSE r \in row : TRUE))

\* a get_person that returns None for a missing row, as its Optional[Person]
\* return type suggests
get_person_ReturnsNone(person_id, db_ok) ==
    /\ Begin
    /\ call' = [op |-> "get_person", person_id |-> person_id, db_ok |-> db_ok]
    /\ outcome' = IF SelectById(Person, person_id) = {} THEN Return(NoneValue)
                  ELSE get_person_outcome(person_id, db_ok)
    /\ UNCHANGED <<tables, ever>>

get_person(person_id, db_ok) ==
    /\ Begin
    /\ call' = [op |-> "get_person", person_id |-> person_id, db_ok |-> db_ok]
    /\ outcome' = get_person_outcome(person_id, db_ok)
    /\ UNCHANGED <<tables, ever>>

update_person_outcome(person_id, name, email, role, db_ok) ==
    LET got == get_person_outcome(person_id, db_ok)
        person == got.value
        name1 == OrStr(name, person.name)
        email1 == OrStr(email, person.email)
        role1 == OrStr(role, person.role)
        upd == UpdatePerson(name1, email1, role1, person_id)
    IN  IF Raised(got) THEN got
        ELSE IF Raised(_validate_email(email1)) THEN _validate_email(email1)
        ELSE IF upd.error # "" THEN Wrap("Person update error", upd.error)
        ELSE Return(PersonEntity(person_id, name1, email1, role1))

update_person(person_id, name, email, role, db_ok) ==
    LET out == update_person_outcome(person_id, name, email, role, db_ok)
    IN  /\ Begin
        /\ call' = [op |-> "update_person", person_id |-> person_id,
                    name |-> name, email |-> email, role |-> role,
                    db_ok |-> db_ok]
        /\ outcome' = out
        /\ Person' = IF Raised(out) THEN Person
                     ELSE UpdatePerson(out.value.name, out.value.email,
                                       out.value.role, person_id).rows
        /\ UNCHANGED <<Milestone, Task, sqlite_sequence, ever>>

delete_person_outcome(person_id, db_ok) ==
    FirstRaise(<<_get_connection(db_ok),
                 _validate_foreign_key("Person", person_id)>>)

delete_person(person_id, db_ok) ==
    LET out == delete_person_outcome(person_id, db_ok)
    IN  /\ Begin
        /\ call' = [op |-> "delete_person", person_id |-> person_id,
                    db_ok |-> db_ok]
        /\ outcome' = out
        /\ Person' = IF Raised(out) THEN Person ELSE DeleteById(Person, person_id)
        /\ Task' = IF Raised(out) THEN Task ELSE DeletePersonCascade(person_id)
        /\ UNCHANGED <<Milestone, sqlite_sequence, ever>>

\* ---- Milestone ----

add_milestone_outcome(name, db_ok) ==
    LET conn == _get_connection(db_ok)
        ins == InsertMilestone(name)
    IN  IF Raised(conn) THEN Wrap("Milestone insertion error", conn.msg)
        ELSE IF ins.error # "" THEN Wrap("Milestone insertion error", ins.error)
        ELSE Return(MilestoneFactory(<<ins.lastrowid, name>>))

add_milestone(name, db_ok) ==
    LET out == add_milestone_outcome(name, db_ok)
        ins == InsertMilestone(name)
    IN  /\ Begin
        /\ Raised(out) \/ CanInsert
        /\ call' = [op |-> "add_milestone", name |-> name, db_ok |-> db_ok]
        /\ outcome' = out
        /\ Milestone' = IF Raised(out) THEN Milestone ELSE ins.rows
        /\ sqlite_sequence' = IF Raised(out) THEN sqlite_sequence
                              ELSE Bump("Milestone", ins.lastrowid)
        /\ ever' = IF Raised(out) THEN ever ELSE Handed("Milestone", ins.lastrowid)
        /\ UNCHANGED <<Person, Task>>

get_milestone_outcome(milestone_id, db_ok) ==
    LET conn == _get_connection(db_ok)
        row == SelectById(Milestone, milestone_id)
    IN  IF Raised(conn) THEN Wrap("Milestone retrieval error", conn.msg)
        ELSE IF row = {} THEN Raise("LookupError", "Milestone with id not found")
        ELSE Return(MilestoneFactory(CHOOSE r \in row : TRUE))

get_milestone(milestone_id, db_ok) ==
    /\ Begin
    /\ call' = [op |-> "get_milestone", milestone_id |-> milestone_id,
                db_ok |-> db_ok]
    /\ outcome' = get_milestone_outcome(milestone_id, db_ok)
    /\ UNCHANGED <<tables, ever>>

update_milestone_outcome(milestone_id, name, db_ok) ==
    LET got == get_milestone_outcome(milestone_id, db_ok)
        name1 == OrStr(name, got.value.name)
        upd == UpdateMilestone(name1, milestone_id)
    IN  IF Raised(got) THEN got
        ELSE IF upd.error # "" THEN Wrap("Milestone update error", upd.error)
        ELSE Return(MilestoneEntity(milestone_id, name1))

update_milestone(milestone_id, name, db_ok) ==
    LET out == update_milestone_outcome(milestone_id, name, db_ok)
    IN  /\ Begin
        /\ call' = [op |-> "update_milestone", milestone_id |-> milestone_id,
                    name |-> name, db_ok |-> db_ok]
        /\ outcome' = out
        /\ Milestone' = IF Raised(out) THEN Milestone
                        ELSE UpdateMilestone(out.value.name, milestone_id).rows
        /\ UNCHANGED <<Person, Task, sqlite_sequence, ever>>

delete_milestone_outcome(milestone_id, db_ok) ==
    FirstRaise(<<_get_connection(db_ok),
                 _validate_foreign_key("Milestone", milestone_id)>>)

delete_milestone(milestone_id, db_ok) ==
    LET out == delete_milestone_outcome(milestone_id, db_ok)
    IN  /\ Begin
        /\ call' = [op |-> "delete_milestone", milestone_id |-> milestone_id,
                    db_ok |-> db_ok]
        /\ outcome' = out
        /\ Milestone' = IF Raised(out) THEN Milestone
                        ELSE DeleteById(Milestone, milestone_id)
        /\ Task' = IF Raised(out) THEN Task
                   ELSE DeleteMilestoneSetNull(milestone_id)
        /\ UNCHANGED <<Person, sqlite_sequence, ever>>

\* ---- Task ----

\* the checks without the one of the milestone reference
TaskChecks_NoMilestoneCheck(status, priority, start_date, due_date, person_id, milestone_id, db_ok) ==
    FirstRaise(<<_validate_status(status),
                 _validate_priority(priority),
                 _validate_date(start_date),
                 _validate_date(due_date),
                 _get_connection(db_ok),
                 _validate_foreign_key("Person", person_id)>>)

\* the checks add_task and update_task run, in order, before their statement;
\* the first connection is the one _validate_foreign_key opens
TaskChecks(status, priority, start_date, due_date, person_id, milestone_id, db_ok) ==
    FirstRaise(<<_validate_status(status),
                 _validate_priority(priority),
                 _validate_date(start_date),
                 _validate_date(due_date),
                 _get_connection(db_ok),
                 _validate_foreign_key("Person", person_id),
                 IF TruthyInt(milestone_id)
                 THEN _validate_foreign_key("Milestone", milestone_id)
                 ELSE Ok>>)

add_task_outcome(title, description, status, priority, start_date, due_date, person_id, milestone_id, db_ok) ==
    LET checked == TaskChecks(status, priority, start_date, due_date,
                              person_id, milestone_id, db_ok)
        ins == InsertTask(title, description, status, priority, start_date,
                          due_date, person_id, milestone_id)
    IN  IF Raised(checked) THEN checked
        ELSE IF ins.error # "" THEN Wrap("Task insertion error", ins.error)
        ELSE Return(TaskFactory(<<ins.lastrowid, title, description, status,
                                  priority, start_date, due_date, person_id,
                                  milestone_id>>))

add_task(title, description, status, priority, start_date, due_date, person_id, milestone_id, db_ok) ==
    LET out == add_task_outcome(title, description, status, priority,
                                start_date, due_date, person_id, milestone_id,
                                db_ok)
        ins == InsertTask(title, description, status, priority, start_date,
                          due_date, person_id, milestone_id)
    IN  /\ Begin
        /\ Raised(out) \/ CanInsert
        /\ call' = [op |-> "add_task", title |-> title,
                    description |-> description, status |-> status,
                    priority |-> priority, start_date |-> start_date,
                    due_date |-> due_date, person_id |-> person_id,
                    milestone_id |-> milestone_id, db_ok |-> db_ok]
        /\ outcome' = out
        /\ Task' = IF Raised(out) THEN Task ELSE ins.rows
        /\ sqlite_sequence' = IF Raised(out) THEN sqlite_sequence
                              ELSE Bump("Task", ins.lastrowid)
        /\ ever' = IF Raised(out) THEN ever ELSE Handed("Task", ins.lastrowid)
        /\ UNCHANGED <<Person, Milestone>>

get_task_outcome(task_id, db_ok) ==
    LET conn == _get_connection(db_ok)
        row == SelectById(Task, task_id)
    IN  IF Raised(conn) THEN Wrap("Task retrieval error", conn.msg)
        ELSE IF row = {} THEN Raise("LookupError", "Task with id not found")
        ELSE Return(TaskFactory(CHOOSE r \in row : TRUE))

get_task(task_id, db_ok) ==
    /\ Begin
    /\ call' = [op |-> "get_task", task_id |-> task_id, db_ok |-> db_ok]
    /\ outcome' = get_task_outcome(task_id, db_ok)
    /\ UNCHANGED <<tables, ever>>

\* the supplied milestone_id taken as it is, None included
MergeMilestone_Supplied(milestone_id, stored) == milestone_id

\* milestone_id = milestone_id if milestone_id is not None else task.milestone_id
MergeMilestone(milestone_id, stored) ==
    IF milestone_id # NoneInt THEN milestone_id ELSE stored

update_task_outcome(task_id, title, description, status, priority, start_date, due_date, person_id, milestone_id, db_ok) ==
    LET got == get_task_outcome(task_id, db_ok)
        task == got.value
        title1 == OrStr(title, task.title)
        description1 == OrStr(description, task.description)
        status1 == OrStr(status, task.status)
        priority1 == OrStr(priority, task.priority)
        start_date1 == OrStr(start_date, task.start_date)
        due_date1 == OrStr(due_date, task.due_date)
        person_id1 == OrInt(person_id, task.person_id)
        milestone_id1 == MergeMilestone(milestone_id, task.milestone_id)
        checked == TaskChecks(status1, priority1, start_date1, due_date1,
                              person_id1, milestone_id1, db_ok)
        upd == UpdateTask(title1, description1, status1, priority1,
                          start_date1, due_date1, person_id1, milestone_id1,
                          task_id)
    IN  IF Raised(got) THEN got
        ELSE IF Raised(checked) THEN checked
        ELSE IF upd.error # "" THEN Wrap("Task update error", upd.error)
        ELSE Return(TaskEntity(task_id, title1, description1, status1,
                               priority1, start_date1, due_date1, person_id1,
                               milestone_id1))

update_task(task_id, title, description, status, priority, start_date, due_date, person_id, milestone_id, db_ok) ==
    LET out == update_task_outcome(task_id, title, description, status,
                                   priority, start_date, due_date, person_id,
                                   milestone_id, db_ok)
        t == out.value
    IN  /\ Begin
        /\ call' = [op |-> "update_task", task_id |-> task_id,
                    title |-> title, description |-> description,
                    status |-> status, priority |-> priority,
                    start_date |-> start_date, due_date |-> due_date,
                    person_id |-> person_id, milestone_id |-> milestone_id,
                    db_ok |-> db_ok]
        /\ outcome' = out
        /\ Task' = IF Raised(out) THEN Task
                   ELSE UpdateTask(t.title, t.description, t.status, t.priority,
                                   t.start_date, t.due_date, t.person_id,
                                   t.milestone_id, task_id).rows
        /\ UNCHANGED <<Person, Milestone, sqlite_sequence, ever>>

delete_task_outcome(task_id, db_ok) ==
    FirstRaise(<<_get_connection(db_ok), _validate_foreign_key("Task", task_id)>>)

delete_task(task_id, db_ok) ==
    LET out == delete_task_outcome(task_id, db_ok)
    IN  /\ Begin
        /\ call' = [op |-> "delete_task", task_id |-> task_id, db_ok |-> db_ok]
        /\ outcome' = out
        /\ Task' = IF Raised(out) THEN Task ELSE DeleteById(Task, task_id)
        /\ UNCHANGED <<Person, Milestone, sqlite_sequence, ever>>

\* ---- Lists ----

\* a Python list of entities
ListValue(items) == [type |-> "list", items |-> items]

\* the outcomes get_all_persons can have: one for each order the statement
\* can yield the rows in
get_all_persons_outcomes(sort_by, db_ok) ==
    LET conn == _get_connection(db_ok)
    IN  IF sort_by \notin {"id", "name", "email", "role"}
        THEN {Raise("ValueError", "Invalid sort field")}
        ELSE IF Raised(conn)
        THEN {Wrap("Person list retrieval error", conn.msg)}
        ELSE {Return(ListValue([i \in 1..Len(s) |-> PersonFactory(s[i])])) :
                s \in OrderBy(Person, "Person", sort_by)}

get_all_persons(sort_by, db_ok) ==
    /\ Begin
    /\ call' = [op |-> "get_all_persons", sort_by |-> sort_by, db_ok |-> db_ok]
    /\ outcome' \in get_all_persons_outcomes(sort_by, db_ok)
    /\ UNCHANGED <<tables, ever>>

get_all_tasks_outcomes(sort_by, db_ok) ==
    LET conn == _get_connection(db_ok)
    IN  IF sort_by \notin {"title", "priority", "person_id", "status"}
        THEN {Raise("ValueError", "Invalid sort field")}
        ELSE IF Raised(conn)
        THEN {Wrap("Task list retrieval error", conn.msg)}
        ELSE {Return(ListValue([i \in 1..Len(s) |-> TaskFactory(s[i])])) :
                s \in OrderBy(Task, "Task", sort_by)}

get_all_tasks(sort_by, db_ok) ==
    /\ Begin
    /\ call' = [op |-> "get_all_tasks", sort_by |-> sort_by, db_ok |-> db_ok]
    /\ outcome' \in get_all_tasks_outcomes(sort_by, db_ok)
    /\ UNCHANGED <<tables, ever>>

get_all_milestones_outcomes(sort_by, db_ok) ==
    LET conn == _get_connection(db_ok)
    IN  IF sort_by \notin {"name"}
        THEN {Raise("ValueError", "Invalid sort field")}
        ELSE IF Raised(conn)
        THEN {Wrap("Milestone list retrieval error", conn.msg)}
        ELSE {Return(ListValue([i \in 1..Len(s) |-> MilestoneFactory(s[i])])) :
                s \in OrderBy(Milestone, "Milestone", sort_by)}

get_all_milestones(sort_by, db_ok) ==
    /\ Begin
    /\ call' = [op |-> "get_all_milestones", sort_by |-> sort_by,
                db_ok |-> db_ok]
    /\ outcome' \in get_all_milestones_outcomes(sort_by, db_ok)
    /\ UNCHANGED <<tables, ever>>

\* `if status and status not in self.VALID_STATUSES`
FilterCheck(value, valid, text) ==
    IF TruthyStr(value) /\ value \notin valid THEN Raise("ValueError", text)
    ELSE Ok

\* a query without its AND clauses: every Task of the milestone
SelectByMilestone_NoFilters(milestone_id, status, priority) ==
    {row \in Task : milestone_id # NoneInt /\ row[9] = milestone_id}

\* SELECT * FROM Task WHERE milestone_id = ? [AND status = ?] [AND priority = ?]
SelectByMilestone(milestone_id, status, priority) ==
    {row \in Task :
        /\ milestone_id # NoneInt /\ row[9] = milestone_id
        /\ TruthyStr(status) => row[4] = status
        /\ TruthyStr(priority) => row[5] = priority}

get_tasks_by_milestone_outcomes(milestone_id, status, priority, sort_by, db_ok) ==
    LET checked ==
            FirstRaise(<<IF sort_by \notin {"id", "title", "status", "priority",
                                            "start_date", "due_date"}
                         THEN Raise("ValueError", "Invalid sort field")
                         ELSE Ok,
                         FilterCheck(status, VALID_STATUSES,
                                     "Invalid status filter"),
                         FilterCheck(priority, VALID_PRIORITIES,
                                     "Invalid priority filter"),
                         _get_connection(db_ok),
                         _validate_foreign_key("Milestone", milestone_id)>>)
        selected == SelectByMilestone(milestone_id, status, priority)
    IN  IF Raised(checked) THEN {checked}
        ELSE {Return(ListValue([i \in 1..Len(s) |-> TaskFactory(s[i])])) :
                s \in OrderBy(selected, "Task", sort_by)}

get_tasks_by_milestone(milestone_id, status, priority, sort_by, db_ok) ==
    /\ Begin
    /\ call' = [op |-> "get_tasks_by_milestone", milestone_id |-> milestone_id,
                status |-> status, priority |-> priority, sort_by |-> sort_by,
                db_ok |-> db_ok]
    /\ outcome' \in get_tasks_by_milestone_outcomes(milestone_id, status, priority, sort_by, db_ok)
    /\ UNCHANGED <<tables, ever>>

\* the caller takes the answer and is free to make its next call
CallerContinues ==
    /\ call # Idle
    /\ call' = Idle
    /\ outcome' = Ok
    /\ before' = Store
    /\ UNCHANGED <<tables, ever, sessions>>

(***************************************************************************)
(* The calls of the model                                                  *)
(***************************************************************************)
\* ids a call names: 0 (no table hands it out) and the first two ids a table
\* hands out
IdArgs == 0..2

\* add_person(name, email, role)
AddPersonArgs ==
    {<<Ada, AdaMail, Engineer>>, <<Bob, BobMail, None>>,
     <<Ada, BadMail, Engineer>>, <<None, BobMail, Engineer>>,
     <<Ada, NoAtMail, Engineer>>, <<Ada, None, Engineer>>}

\* update_person(_, name, email, role)
UpdatePersonArgs ==
    {<<Empty, Empty, None>>, <<Bob, BobMail, Manager>>,
     <<None, AdaMail, Empty>>, <<Bob, BadMail, None>>}

MilestoneNameArgs == {Beta, None}

UpdateMilestoneArgs == {GA, Empty, None}

TaskArgs(title, description, status, priority, start_date, due_date, person_id, milestone_id) ==
    [title |-> title, description |-> description, status |-> status,
     priority |-> priority, start_date |-> start_date, due_date |-> due_date,
     person_id |-> person_id, milestone_id |-> milestone_id]

\* add_task with every field valid, on persons and milestones that may exist;
\* the title is empty in one of the calls
ValidAddTaskArgs ==
    {TaskArgs(IF p = 2 /\ m = NoneInt THEN Empty ELSE WriteSpec, Notes, ToDo,
              High, D20250101, D20250110, p, m) :
        p \in {1, 2}, m \in {NoneInt, 1, 2}}
    \cup
    {TaskArgs(Review, Notes, InProgress, Medium, D20240229, D20250101,
              r[1], r[2]) : r \in {<<1, NoneInt>>, <<2, 1>>}}

\* add_task with a reference that is absent, zero or of no row
BadRefAddTaskArgs ==
    {TaskArgs(WriteSpec, Notes, ToDo, High, D20250101, D20250110, r[1], r[2]) :
        r \in {<<NoneInt, NoneInt>>, <<0, NoneInt>>, <<1, 0>>, <<0, 0>>}}

\* add_task with a status, priority or date the validators reject
InvalidAddTaskArgs ==
    {TaskArgs(WriteSpec, Notes, Blocked, High, D20250101, D20250110, 1, NoneInt),
     TaskArgs(WriteSpec, Notes, Blocked, Urgent, D20240230, D20250110, 0, 0),
     TaskArgs(WriteSpec, Notes, ToDo, Urgent, D20250101, D20250110, 1, NoneInt),
     TaskArgs(WriteSpec, Notes, ToDo, High, D20240230, D20250110, 1, NoneInt),
     TaskArgs(WriteSpec, Notes, ToDo, High, D2025_1_1, D20250110, 1, 1),
     TaskArgs(WriteSpec, Notes, ToDo, High, D20250101, D20241301, 1, NoneInt)}

AddTaskArgs == ValidAddTaskArgs \cup BadRefAddTaskArgs \cup InvalidAddTaskArgs

\* update_task(_, ...): fields kept or replaced, references kept or replaced
UpdateTaskArgs ==
    {TaskArgs(None, None, None, None, None, None, r[1], r[2]) :
        r \in {<<NoneInt, NoneInt>>, <<0, NoneInt>>, <<2, NoneInt>>,
               <<NoneInt, 0>>, <<NoneInt, 1>>}}
    \cup
    {TaskArgs(Review, Empty, InProgress, Medium, D20240229, D20250101,
              NoneInt, NoneInt),
     TaskArgs(None, None, Blocked, Urgent, None, None, NoneInt, 1),
     TaskArgs(None, None, None, None, D20240230, None, 2, NoneInt),
     TaskArgs(Review, Empty, None, None, None, D2025_1_1, NoneInt, NoneInt)}

\* sort_by of the three lists: every sortable field and one that is not
PersonSortArgs == {"id", "name", "email", "role", "phone"}

TaskSortArgs == {"title", "priority", "person_id", "status", "due_date"}

MilestoneSortArgs == {"name", "id"}

\* get_tasks_by_milestone(_, status, priority, sort_by): filters absent,
\* empty, matching, not of the enumeration; sort_by the default, another
\* field, a field that is not sortable
ByMilestoneArgs ==
    {<<None, None, "due_date">>, <<ToDo, None, "due_date">>,
     <<Empty, Empty, "title">>, <<None, Medium, "id">>,
     <<InProgress, Medium, "priority">>, <<Blocked, None, "due_date">>,
     <<None, Urgent, "due_date">>, <<None, None, "person_id">>}

Init ==
    /\ Person = {}
    /\ Milestone = {}
    /\ Task = {}
    /\ sqlite_sequence = [Person |-> 0, Milestone |-> 0, Task |-> 0]
    /\ call = Idle
    /\ outcome = Ok
    /\ ever = [Person |-> {}, Milestone |-> {}, Task |-> {}]
    /\ before = [Person |-> {}, Milestone |-> {}, Task |-> {},
                 sqlite_sequence |-> [Person |-> 0, Milestone |-> 0, Task |-> 0],
                 ever |-> [Person |-> {}, Milestone |-> {}, Task |-> {}]]
    /\ pc = [c \in Callers |-> Idle]
    /\ connections = [c \in Callers |-> << >>]

\* every call, made while the database file can be opened (db = {TRUE}) or
\* also while it cannot (db = {TRUE, FALSE})
Calls(db) ==
    \/ \E a \in AddPersonArgs, db_ok \in db : add_person(a[1], a[2], a[3], db_ok)
    \/ \E person_id \in IdArgs, db_ok \in db : get_person(person_id, db_ok)
    \/ \E person_id \in IdArgs, a \in UpdatePersonArgs, db_ok \in db :
          update_person(person_id, a[1], a[2], a[3], db_ok)
    \/ \E person_id \in IdArgs, db_ok \in db : delete_person(person_id, db_ok)
    \/ \E name \in MilestoneNameArgs, db_ok \in db : add_milestone(name, db_ok)
    \/ \E milestone_id \in IdArgs, db_ok \in db :
          get_milestone(milestone_id, db_ok)
    \/ \E milestone_id \in IdArgs, name \in UpdateMilestoneArgs, db_ok \in db :
          update_milestone(milestone_id, name, db_ok)
    \/ \E milestone_id \in IdArgs, db_ok \in db :
          delete_milestone(milestone_id, db_ok)
    \/ \E a \in AddTaskArgs, db_ok \in db :
          add_task(a.title, a.description, a.status, a.priority, a.start_date,
                   a.due_date, a.person_id, a.milestone_id, db_ok)
    \/ \E task_id \in IdArgs, db_ok \in db : get_task(task_id, db_ok)
    \/ \E task_id \in IdArgs, a \in UpdateTaskArgs, db_ok \in db :
          update_task(task_id, a.title, a.description, a.status, a.priority,
                      a.start_date, a.due_date, a.person_id, a.milestone_id,
                      db_ok)
    \/ \E task_id \in IdArgs, db_ok \in db : delete_task(task_id, db_ok)
    \/ \E sort_by \in PersonSortArgs, db_ok \in db :
          get_all_persons(sort_by, db_ok)
    \/ \E sort_by \in TaskSortArgs, db_ok \in db : get_all_tasks(sort_by, db_ok)
    \/ \E sort_by \in MilestoneSortArgs, db_ok \in db :
          get_all_milestones(sort_by, db_ok)
    \/ \E milestone_id \in IdArgs, a \in ByMilestoneArgs, db_ok \in db :
          get_tasks_by_milestone(milestone_id, a[1], a[2], a[3], db_ok)

Next == Calls({TRUE}) \/ CallerContinues

Spec == Init /\ [][Next]_vars

\* every operation called while the database file cannot be opened
FaultCalls ==
    \/ \E a \in {<<Ada, AdaMail, Engineer>>, <<Ada, BadMail, Engineer>>} :
          add_person(a[1], a[2], a[3], FALSE)
    \/ get_person(1, FALSE)
    \/ update_person(1, Bob, BobMail, Manager, FALSE)
    \/ delete_person(1, FALSE)
    \/ add_milestone(Beta, FALSE)
    \/ get_milestone(1, FALSE)
    \/ update_milestone(1, GA, FALSE)
    \/ delete_milestone(1, FALSE)
    \/ \E status \in {ToDo, Blocked} :
          add_task(WriteSpec, Notes, status, High, D20250101, D20250110, 1,
                   NoneInt, FALSE)
    \/ get_task(1, FALSE)
    \/ update_task(1, Review, Empty, InProgress, Medium, D20240229, D20250101,
                   NoneInt, NoneInt, FALSE)
    \/ delete_task(1, FALSE)
    \/ \E sort_by \in {"name", "phone"} : get_all_persons(sort_by, FALSE)
    \/ get_all_tasks("title", FALSE)
    \/ get_all_milestones("name", FALSE)
    \/ get_tasks_by_milestone(1, None, None, "due_date", FALSE)

\* the same caller, whose database file may fail to open
NextFault == Calls({TRUE}) \/ FaultCalls \/ CallerContinues

SpecFault == Init /\ [][NextFault]_vars

(***************************************************************************)
(* The date validator on its own: a text is drawn, then _validate_date is  *)
(* applied to it.                                                          *)
(***************************************************************************)
DigitChar(n) == CHOOSE c \in Digits : DigitValue(c) = n

TwoDigits(n) == <<DigitChar(n \div 10), DigitChar(n % 10)>>

FourDigits(n) == TwoDigits(n \div 100) \o TwoDigits(n % 100)

\* the text YYYY-MM-DD of three numbers
DateText(y, m, d) == FourDigits(y) \o <<"-">> \o TwoDigits(m) \o <<"-">> \o TwoDigits(d)

\* years, months and days a date text is written with: the year 0, a century
\* that is no leap year, one that is, a leap year and a common year; months
\* and days from 00 to past their range
DateYears == {0, 1900, 2000, 2023, 2024}

DateMonths == 0..13

DateDays == 0..32

\* texts that are not dddd-dd-dd
OtherDateTexts ==
    {Empty, None, D2025_1_1,
     <<"2", "0", "2", "4", "0", "1", "0", "1">>,
     <<"2", "0", "2", "4", "/", "0", "1", "/", "0", "1">>,
     <<"2", "4", "-", "0", "1", "-", "0", "1">>,
     <<"2", "0", "2", "4", "-", "0", "1", "-", "0", "1", "x">>,
     <<"a", "b", "c", "d", "-", "e", "f", "-", "g", "h">>}

DateArgs ==
    {[shape |-> "dddd-dd-dd", date_str |-> DateText(y, m, d),
      y |-> y, m |-> m, d |-> d] :
        y \in DateYears, m \in DateMonths, d \in DateDays}
    \cup
    {[shape |-> "dddd-dd-dd newline", date_str |-> DateText(y, 1, d) \o <<"\n">>,
      y |-> y, m |-> 1, d |-> d] : y \in {2024}, d \in {1, 31}}
    \cup
    {[shape |-> "other", date_str |-> t, y |-> 0, m |-> 0, d |-> 0] :
        t \in OtherDateTexts \ {None}}

InitDate ==
    /\ Person = {}
    /\ Milestone = {}
    /\ Task = {}
    /\ sqlite_sequence = [Person |-> 0, Milestone |-> 0, Task |-> 0]
    /\ \E a \in DateArgs :
          call = [op |-> "_validate_date", applied |-> FALSE, arg |-> a]
    /\ outcome = Ok
    /\ ever = [Person |-> {}, Milestone |-> {}, Task |-> {}]
    /\ before = [Person |-> {}, Milestone |-> {}, Task |-> {},
                 sqlite_sequence |-> [Person |-> 0, Milestone |-> 0, Task |-> 0],
                 ever |-> [Person |-> {}, Milestone |-> {}, Task |-> {}]]
    /\ pc = [c \in Callers |-> Idle]
    /\ connections = [c \in Callers |-> << >>]

\* _validate_date is applied to the text drawn
ValidateDate ==
    /\ call.op = "_validate_date"
    /\ ~call.applied
    /\ call' = [call EXCEPT !.applied = TRUE]
    /\ outcome' = _validate_date(call.arg.date_str)
    /\ UNCHANGED <<tables, ever, before, sessions>>

NextDate == ValidateDate

SpecDate == InitDate /\ [][NextDate]_vars

(***************************************************************************)
(* The operations, connection by connection.  Every                        *)
(* `with self._get_connection() as conn:` block an operation runs, its own *)
(* or the one of _validate_foreign_key or of the get_* it calls, is one    *)
(* step: the connection is opened, the block's statement runs and is       *)
(* committed (or rolled back when it raises).  Between two steps of one    *)
(* caller's call a step of the other caller may run.  The connection is    *)
(* never closed by the repository: it is closed when the interpreter       *)
(* reclaims the connection object, at a time the code does not fix.        *)
(***************************************************************************)

\* Bound of the model: the number of rows the stepwise callers ever insert
MaxStepRows == 3

\* sqlite3.connect(self.db_path): a new connection; SQLite does not enforce
\* foreign keys on it until it is told to
sqlite3_connect == [foreign_keys |-> FALSE, statement |-> "", closed |-> FALSE]

\* a connection handed out without the PRAGMA
conn_NoPragma == sqlite3_connect

\* conn.execute('PRAGMA foreign_keys = ON'); return conn
conn == [sqlite3_connect EXCEPT !.foreign_keys = TRUE]

\* the INSERT into Task on a connection that does not enforce foreign keys
InsertTask_Unenforced(a) ==
    IF a.title = None THEN Failed(Task, "NOT NULL constraint failed: Task.title")
    ELSE LET id == NewRowid(Task, sqlite_sequence.Task)
         IN  Ran(Task \cup {<<id, a.title, a.description, a.status, a.priority,
                              a.start_date, a.due_date, a.person_id,
                              a.milestone_id>>}, id)

\* the UPDATE of Task on a connection that does not enforce foreign keys
UpdateTask_Unenforced(a) ==
    IF SelectById(Task, a.id) = {} THEN Ran(Task, 0)
    ELSE IF a.title = None
    THEN Failed(Task, "NOT NULL constraint failed: Task.title")
    ELSE Ran({IF row[1] = a.id
              THEN <<a.id, a.title, a.description, a.status, a.priority,
                     a.start_date, a.due_date, a.person_id, a.milestone_id>>
              ELSE row : row \in Task}, 0)

\* the statements whose effect depends on the connection they run on
InsertTaskOn(connection, a) ==
    IF connection.foreign_keys
    THEN InsertTask(a.title, a.description, a.status, a.priority, a.start_date,
                    a.due_date, a.person_id, a.milestone_id)
    ELSE InsertTask_Unenforced(a)

UpdateTaskOn(connection, a) ==
    IF connection.foreign_keys
    THEN UpdateTask(a.title, a.description, a.status, a.priority, a.start_date,
                    a.due_date, a.person_id, a.milestone_id, a.id)
    ELSE UpdateTask_Unenforced(a)

DeletePersonOn(connection, person_id) ==
    IF connection.foreign_keys THEN DeletePersonCascade(person_id) ELSE Task

DeleteMilestoneOn(connection, milestone_id) ==
    IF connection.foreign_keys THEN DeleteMilestoneSetNull(milestone_id) ELSE Task

\* cursor.rowcount of an UPDATE ... WHERE id = ? that ran
rowcount(table, id) == Cardinality(SelectById(table, id))

\* ---- the position of a caller in its call ----

At(c, op, at) == pc[c].op = op /\ pc[c].at = at

Goto(c, at, local) == pc' = [pc EXCEPT ![c].at = at, ![c].local = local]

\* the call ends: it returns or raises `out`
Finish(c, out) == pc' = [pc EXCEPT ![c].at = "done", ![c].outcome = out]

\* the call ends with its write statement: `matched` is the statement's
\* rowcount and `gone` tells that the person it refers to was not stored
FinishWrite(c, out, matched, gone) ==
    pc' = [pc EXCEPT ![c].at = "done", ![c].outcome = out,
                     ![c].rowcount = matched, ![c].gone = gone]

\* with self._get_connection() as conn: the block's connection is opened
Opens(c, statement) ==
    connections' = [connections EXCEPT
                       ![c] = Append(@, [conn EXCEPT !.statement = statement])]

Untouched == UNCHANGED <<call, outcome, before, ever>>

\* ---- Person ----

add_person_write(c) ==
    LET a == pc[c].local
        checked == _validate_email(a.email)
        ins == InsertPerson(a.name, a.email, a.role)
    IN  /\ At(c, "add_person", "write")
        /\ IF Raised(checked)
           THEN Finish(c, checked) /\ UNCHANGED <<connections, tables>>
           ELSE /\ Opens(c, "INSERT")
                /\ IF ins.error # ""
                   THEN /\ Finish(c, Wrap("Person insertion error", ins.error))
                        /\ UNCHANGED tables
                   ELSE /\ Finish(c, Return(PersonFactory(
                                   <<ins.lastrowid, a.name, a.email, a.role>>)))
                        /\ Person' = ins.rows
                        /\ sqlite_sequence' = Bump("Person", ins.lastrowid)
                        /\ UNCHANGED <<Milestone, Task>>
        /\ Untouched

get_person_read(c) ==
    /\ At(c, "get_person", "read")
    /\ Opens(c, "SELECT")
    /\ Finish(c, get_person_outcome(pc[c].local.id, TRUE))
    /\ UNCHANGED tables
    /\ Untouched

\* person = self.get_person(person_id) and the merge of the arguments
update_person_read(c) ==
    LET a == pc[c].local
        got == get_person_outcome(a.id, TRUE)
        person == got.value
    IN  /\ At(c, "update_person", "read")
        /\ Opens(c, "SELECT")
        /\ IF Raised(got) THEN Finish(c, got)
           ELSE Goto(c, "write", [id |-> a.id,
                                  name |-> OrStr(a.name, person.name),
                                  email |-> OrStr(a.email, person.email),
                                  role |-> OrStr(a.role, person.role)])
        /\ UNCHANGED tables
        /\ Untouched

update_person_write(c) ==
    LET a == pc[c].local
        checked == _validate_email(a.email)
        upd == UpdatePerson(a.name, a.email, a.role, a.id)
    IN  /\ At(c, "update_person", "write")
        /\ IF Raised(checked)
           THEN Finish(c, checked) /\ UNCHANGED <<connections, Person>>
           ELSE /\ Opens(c, "UPDATE")
                /\ IF upd.error # ""
                   THEN Finish(c, Wrap("Person update error", upd.error))
                   ELSE FinishWrite(c, Return(PersonEntity(a.id, a.name, a.email,
                                                           a.role)),
                                    rowcount(Person, a.id), FALSE)
                /\ Person' = upd.rows
        /\ UNCHANGED <<Milestone, Task, sqlite_sequence>>
        /\ Untouched

\* self._validate_foreign_key("Person", "id", person_id)
delete_person_check(c) ==
    LET found == _validate_foreign_key("Person", pc[c].local.id)
    IN  /\ At(c, "delete_person", "check")
        /\ Opens(c, "SELECT")
        /\ IF Raised(found) THEN Finish(c, found)
           ELSE Goto(c, "write", pc[c].local)
        /\ UNCHANGED tables
        /\ Untouched

delete_person_write(c) ==
    /\ At(c, "delete_person", "write")
    /\ Opens(c, "DELETE")
    /\ Finish(c, Ok)
    /\ Person' = DeleteById(Person, pc[c].local.id)
    /\ Task' = DeletePersonOn(conn, pc[c].local.id)
    /\ UNCHANGED <<Milestone, sqlite_sequence>>
    /\ Untouched

\* ---- Milestone ----

add_milestone_write(c) ==
    LET a == pc[c].local
        ins == InsertMilestone(a.name)
    IN  /\ At(c, "add_milestone", "write")
        /\ Opens(c, "INSERT")
        /\ IF ins.error # ""
           THEN /\ Finish(c, Wrap("Milestone insertion error", ins.error))
                /\ UNCHANGED tables
           ELSE /\ Finish(c, Return(MilestoneFactory(<<ins.lastrowid, a.name>>)))
                /\ Milestone' = ins.rows
                /\ sqlite_sequence' = Bump("Milestone", ins.lastrowid)
                /\ UNCHANGED <<Person, Task>>
        /\ Untouched

\* milestone = self.get_milestone(milestone_id) and the merge of the name
update_milestone_read(c) ==
    LET a == pc[c].local
        got == get_milestone_outcome(a.id, TRUE)
    IN  /\ At(c, "update_milestone", "read")
        /\ Opens(c, "SELECT")
        /\ IF Raised(got) THEN Finish(c, got)
           ELSE Goto(c, "write", [id |-> a.id,
                                  name |-> OrStr(a.name, got.value.name)])
        /\ UNCHANGED tables
        /\ Untouched

update_milestone_write(c) ==
    LET a == pc[c].local
        upd == UpdateMilestone(a.name, a.id)
    IN  /\ At(c, "update_milestone", "write")
        /\ Opens(c, "UPDATE")
        /\ IF upd.error # ""
           THEN Finish(c, Wrap("Milestone update error", upd.error))
           ELSE FinishWrite(c, Return(MilestoneEntity(a.id, a.name)),
                            rowcount(Milestone, a.id), FALSE)
        /\ Milestone' = upd.rows
        /\ UNCHANGED <<Person, Task, sqlite_sequence>>
        /\ Untouched

delete_milestone_check(c) ==
    LET found == _validate_foreign_key("Milestone", pc[c].local.id)
    IN  /\ At(c, "delete_milestone", "check")
        /\ Opens(c, "SELECT")
        /\ IF Raised(found) THEN Finish(c, found)
           ELSE Goto(c, "write", pc[c].local)
        /\ UNCHANGED tables
        /\ Untouched

delete_milestone_write(c) ==
    /\ At(c, "delete_milestone", "write")
    /\ Opens(c, "DELETE")
    /\ Finish(c, Ok)
    /\ Milestone' = DeleteById(Milestone, pc[c].local.id)
    /\ Task' = DeleteMilestoneOn(conn, pc[c].local.id)
    /\ UNCHANGED <<Person, sqlite_sequence>>
    /\ Untouched

\* ---- Task ----

\* the validations add_task and update_task run before any connection
TaskValidations(a) ==
    FirstRaise(<<_validate_status(a.status), _validate_priority(a.priority),
                 _validate_date(a.start_date), _validate_date(a.due_date)>>)

\* the validations, then self._validate_foreign_key("Person", "id", person_id)
PersonCheck(c) ==
    LET a == pc[c].local
        checked == TaskValidations(a)
        found == _validate_foreign_key("Person", a.person_id)
    IN  /\ IF Raised(checked) THEN Finish(c, checked) /\ UNCHANGED connections
           ELSE /\ Opens(c, "SELECT")
                /\ IF Raised(found) THEN Finish(c, found)
                   ELSE Goto(c, IF TruthyInt(a.milestone_id) THEN "milestone"
                                ELSE "write", a)
        /\ UNCHANGED tables
        /\ Untouched

\* if milestone_id: self._validate_foreign_key("Milestone", "id", milestone_id)
MilestoneCheck(c) ==
    LET found == _validate_foreign_key("Milestone", pc[c].local.milestone_id)
    IN  /\ Opens(c, "SELECT")
        /\ IF Raised(found) THEN Finish(c, found)
           ELSE Goto(c, "write", pc[c].local)
        /\ UNCHANGED tables
        /\ Untouched

add_task_person(c) == At(c, "add_task", "person") /\ PersonCheck(c)

add_task_milestone(c) == At(c, "add_task", "milestone") /\ MilestoneCheck(c)

add_task_write(c) ==
    LET a == pc[c].local
        ins == InsertTaskOn(conn, a)
        gone == a.person_id \notin Ids(Person)
    IN  /\ At(c, "add_task", "write")
        /\ Opens(c, "INSERT")
        /\ IF ins.error # ""
           THEN /\ FinishWrite(c, Wrap("Task insertion error", ins.error), 0, gone)
                /\ UNCHANGED tables
           ELSE /\ FinishWrite(c, Return(TaskFactory(
                                   <<ins.lastrowid, a.title, a.description,
                                     a.status, a.priority, a.start_date,
                                     a.due_date, a.person_id, a.milestone_id>>)),
                               1, gone)
                /\ Task' = ins.rows
                /\ sqlite_sequence' = Bump("Task", ins.lastrowid)
                /\ UNCHANGED <<Person, Milestone>>
        /\ Untouched

\* task = self.get_task(task_id) and the merge of the arguments
update_task_read(c) ==
    LET a == pc[c].local
        got == get_task_outcome(a.id, TRUE)
        task == got.value
    IN  /\ At(c, "update_task", "read")
        /\ Opens(c, "SELECT")
        /\ IF Raised(got) THEN Finish(c, got)
           ELSE Goto(c, "person",
                     [id |-> a.id,
                      title |-> OrStr(a.title, task.title),
                      description |-> OrStr(a.description, task.description),
                      status |-> OrStr(a.status, task.status),
                      priority |-> OrStr(a.priority, task.priority),
                      start_date |-> OrStr(a.start_date, task.start_date),
                      due_date |-> OrStr(a.due_date, task.due_date),
                      person_id |-> OrInt(a.person_id, task.person_id),
                      milestone_id |-> MergeMilestone(a.milestone_id,
                                                      task.milestone_id)])
        /\ UNCHANGED tables
        /\ Untouched

update_task_person(c) == At(c, "update_task", "person") /\ PersonCheck(c)

update_task_milestone(c) == At(c, "update_task", "milestone") /\ MilestoneCheck(c)

update_task_write(c) ==
    LET a == pc[c].local
        upd == UpdateTaskOn(conn, a)
        gone == a.person_id \notin Ids(Person)
    IN  /\ At(c, "update_task", "write")
        /\ Opens(c, "UPDATE")
        /\ IF upd.error # ""
           THEN FinishWrite(c, Wrap("Task update error", upd.error), 0, gone)
           ELSE FinishWrite(c, Return(TaskEntity(a.id, a.title, a.description,
                                                 a.status, a.priority,
                                                 a.start_date, a.due_date,
                                                 a.person_id, a.milestone_id)),
                            rowcount(Task, a.id), gone)
        /\ Task' = upd.rows
        /\ UNCHANGED <<Person, Milestone, sqlite_sequence>>
        /\ Untouched

delete_task_check(c) ==
    LET found == _validate_foreign_key("Task", pc[c].local.id)
    IN  /\ At(c, "delete_task", "check")
        /\ Opens(c, "SELECT")
        /\ IF Raised(found) THEN Finish(c, found)
           ELSE Goto(c, "write", pc[c].local)
        /\ UNCHANGED tables
        /\ Untouched

delete_task_write(c) ==
    /\ At(c, "delete_task", "write")
    /\ Opens(c, "DELETE")
    /\ Finish(c, Ok)
    /\ Task' = DeleteById(Task, pc[c].local.id)
    /\ UNCHANGED <<Person, Milestone, sqlite_sequence>>
    /\ Untouched

\* ---- the callers and the interpreter ----

\* where each operation starts
Entry ==
    [add_person |-> "write", get_person |-> "read", update_person |-> "read",
     delete_person |-> "check", add_milestone |-> "write",
     update_milestone |-> "read", delete_milestone |-> "check",
     add_task |-> "person", update_task |-> "read", delete_task |-> "check"]

Adds == {"add_person", "add_milestone", "add_task"}

\* caller 1 adds, reads and updates
BuilderCalls ==
    {[op |-> "add_person", args |-> [name |-> a[1], email |-> a[2], role |-> a[3]]] :
        a \in {<<Ada, AdaMail, Engineer>>, <<Bob, BobMail, None>>,
               <<Ada, BadMail, Engineer>>}}
    \cup {[op |-> "add_milestone", args |-> [name |-> Beta]]}
    \cup
    {[op |-> "add_task",
      args |-> TaskArgs(WriteSpec, Notes, a[1], High, D20250101, D20250110, 1, a[2])] :
        a \in {<<ToDo, NoneInt>>, <<ToDo, 1>>, <<Blocked, NoneInt>>}}
    \cup {[op |-> "get_person", args |-> [id |-> id]] : id \in {1, 3}}
    \cup {[op |-> "update_person",
           args |-> [id |-> 1, name |-> Bob, email |-> None, role |-> None]]}
    \cup {[op |-> "update_milestone", args |-> [id |-> 1, name |-> GA]]}
    \cup
    {[op |-> "update_task",
      args |-> [id |-> 1] @@ TaskArgs(Review, None, None, None, None, None, p, NoneInt)] :
        p \in {NoneInt, 2}}

\* caller 2 deletes
RemoverCalls ==
    {[op |-> op, args |-> [id |-> 1]] :
        op \in {"delete_person", "delete_milestone", "delete_task"}}
    \cup {[op |-> "delete_person", args |-> [id |-> 2]]}

StepCalls(c) == IF c = 1 THEN BuilderCalls ELSE RemoverCalls

\* a caller calls an operation of the repository
Invoke(c) ==
    /\ pc[c] = Idle
    /\ \E k \in StepCalls(c) :
          /\ k.op \in Adds => RowsInserted < MaxStepRows
          /\ pc' = [pc EXCEPT ![c] = [op |-> k.op, args |-> k.args,
                                      at |-> Entry[k.op], local |-> k.args,
                                      outcome |-> Ok, rowcount |-> 0,
                                      gone |-> FALSE]]
    /\ connections' = [connections EXCEPT ![c] = << >>]
    /\ UNCHANGED tables
    /\ Untouched

\* the call has returned or raised and the caller goes on
TakeAnswer(c) ==
    /\ pc[c] # Idle
    /\ pc[c].at = "done"
    /\ pc' = [pc EXCEPT ![c] = Idle]
    /\ UNCHANGED <<connections, tables>>
    /\ Untouched

\* the interpreter reclaims the connection objects a caller's call left
\* behind, which closes them
Collect(c) ==
    /\ \E i \in DOMAIN connections[c] : ~connections[c][i].closed
    /\ connections' = [connections EXCEPT
                          ![c] = [i \in DOMAIN @ |-> [@[i] EXCEPT !.closed = TRUE]]]
    /\ UNCHANGED <<pc, tables>>
    /\ Untouched

NextSteps ==
    \E c \in Callers :
        \/ Invoke(c)
        \/ add_person_write(c)
        \/ get_person_read(c)
        \/ update_person_read(c)
        \/ update_person_write(c)
        \/ delete_person_check(c)
        \/ delete_person_write(c)
        \/ add_milestone_write(c)
        \/ update_milestone_read(c)
        \/ update_milestone_write(c)
        \/ delete_milestone_check(c)
        \/ delete_milestone_write(c)
        \/ add_task_person(c)
        \/ add_task_milestone(c)
        \/ add_task_write(c)
        \/ update_task_read(c)
        \/ update_task_person(c)
        \/ update_task_milestone(c)
        \/ update_task_write(c)
        \/ delete_task_check(c)
        \/ delete_task_write(c)
        \/ TakeAnswer(c)
        \/ Collect(c)

SpecSteps == Init /\ [][NextSteps]_vars

(***************************************************************************)
(* Properties.  `before` is the store a call was made on and the tables    *)
(* are the store it left, so each property of a call is a state predicate  *)
(* of the state the call ends in.                                          *)
(***************************************************************************)
Returned == call # Idle /\ outcome.kind = "return"

RaisedType(t) == call # Idle /\ outcome.kind = "raise" /\ outcome.type = t

StoreUnchanged ==
    /\ Person = before.Person
    /\ Milestone = before.Milestone
    /\ Task = before.Task
    /\ sqlite_sequence = before.sqlite_sequence

\* the enumerations and the calendar as the specification states them
Statuses == {ToDo, InProgress, Done}

Priorities == {High, Medium, Low}

\* of the dates the calls are made with, those that are real calendar dates
\* written YYYY-MM-DD (2024 is a leap year)
RealDates == {D20250101, D20250110, D20240229}

\* C1: add_task with a valid status, priority and dates, an existing person
\* and no milestone succeeds; the returned Task's fields are the arguments,
\* exactly one Task row is added (the row of the returned Task), and the
\* returned id is the id of no Task stored before, deleted ones included.
C1_AddTaskSucceeds ==
    (/\ call.op = "add_task"
     /\ call.status \in Statuses
     /\ call.priority \in Priorities
     /\ call.start_date \in RealDates
     /\ call.due_date \in RealDates
     /\ call.person_id \in Ids(before.Person)
     /\ call.milestone_id = NoneInt)
    => /\ Returned
       /\ outcome.value =
            [type |-> "Task", id |-> outcome.value.id, title |-> call.title,
             description |-> call.description, status |-> call.status,
             priority |-> call.priority, start_date |-> call.start_date,
             due_date |-> call.due_date, person_id |-> call.person_id,
             milestone_id |-> NoneInt]
       /\ outcome.value.id \notin before.ever.Task
       /\ outcome.value.id \notin Ids(before.Task)
       /\ Task = before.Task \cup
                   {<<outcome.value.id, call.title, call.description,
                      call.status, call.priority, call.start_date,
                      call.due_date, call.person_id, NoneInt>>}
       /\ Cardinality(Task) = Cardinality(before.Task) + 1

\* add_task succeeded on a store that had held a Task since deleted
C1_Witness ==
    /\ call.op = "add_task"
    /\ call.milestone_id = NoneInt
    /\ Returned
    /\ before.ever.Task # Ids(before.Task)
    /\ before.Task # {}

\* C2: in every state of the store, every stored Task's person_id is the id
\* of a stored Person and its milestone_id is NULL or the id of a stored
\* Milestone.
C2_ReferentialIntegrity ==
    \A row \in Task :
        /\ row[8] \in Ids(Person)
        /\ row[9] = NoneInt \/ row[9] \in Ids(Milestone)

\* a person with tasks was deleted while another person and a milestone are
\* stored
C2_Witness ==
    /\ call.op = "delete_person"
    /\ Returned
    /\ \E row \in before.Task : row[8] = call.person_id
    /\ Person # {}
    /\ Milestone # {}

\* C3: delete_person(p) on an existing person removes the Person p and
\* exactly the Tasks whose person_id is p: no Task referencing p remains and
\* every Task of another person is still stored, unchanged.
C3_DeletePersonCascades ==
    (call.op = "delete_person" /\ call.person_id \in Ids(before.Person))
    => /\ Returned
       /\ Person = {row \in before.Person : row[1] # call.person_id}
       /\ \A row \in Task : row[8] # call.person_id
       /\ \A row \in before.Task : row[8] # call.person_id => row \in Task
       /\ Task \subseteq before.Task

\* delete_person removed a person's task and left another person's task
C3_Witness ==
    /\ call.op = "delete_person"
    /\ Returned
    /\ Task # before.Task
    /\ Task # {}

\* C4: delete_milestone(m) on an existing milestone removes the Milestone m
\* and keeps every Task row: a Task that referenced m has milestone_id NULL
\* and its other fields as before, every other Task is unchanged, and the
\* number of Task rows is the same.
C4_DeleteMilestoneSetsNull ==
    (call.op = "delete_milestone" /\ call.milestone_id \in Ids(before.Milestone))
    => /\ Returned
       /\ Milestone = {row \in before.Milestone : row[1] # call.milestone_id}
       /\ Task = {IF row[9] = call.milestone_id
                  THEN <<row[1], row[2], row[3], row[4], row[5], row[6],
                         row[7], row[8], NoneInt>>
                  ELSE row : row \in before.Task}
       /\ Cardinality(Task) = Cardinality(before.Task)
       /\ Person = before.Person

\* delete_milestone cleared the reference of one task and left a task that
\* did not reference the milestone
C4_Witness ==
    /\ call.op = "delete_milestone"
    /\ Returned
    /\ \E row \in before.Task : row[9] = call.milestone_id
    /\ \E row \in before.Task : row[9] # call.milestone_id
    /\ Cardinality(Task) = 2

\* the stored row of the task an update_task call names, if there is one
TaskBefore(id) == {row \in before.Task : row[1] = id}

TaskNow(id) == {row \in Task : row[1] = id}

\* C5 as claimed: update_task called with milestone_id None on a task that
\* has a milestone clears it: when the call returns, the returned and the
\* stored Task have no milestone.
C5_Original ==
    (/\ call.op = "update_task"
     /\ call.milestone_id = NoneInt
     /\ \E row \in TaskBefore(call.task_id) : row[9] # NoneInt
     /\ Returned)
    => /\ outcome.value.milestone_id = NoneInt
       /\ \A row \in TaskNow(call.task_id) : row[9] = NoneInt

\* C5, amended: update_task called with milestone_id None on a task that has
\* a milestone keeps it, as for the other fields: the stored Task's
\* milestone_id is what it was, and when the call returns a Task its
\* milestone_id is that stored value.
C5_NoneKeepsMilestone ==
    (/\ call.op = "update_task"
     /\ call.milestone_id = NoneInt
     /\ \E row \in TaskBefore(call.task_id) : row[9] # NoneInt)
    => \A old \in TaskBefore(call.task_id) :
          /\ \E row \in TaskNow(call.task_id) : row[9] = old[9]
          /\ Returned => outcome.value.milestone_id = old[9]

\* update_task with milestone_id None returned for a task on a milestone
C5_Witness ==
    /\ call.op = "update_task"
    /\ call.milestone_id = NoneInt
    /\ \E row \in TaskBefore(call.task_id) : row[9] # NoneInt
    /\ Returned
    /\ Task # before.Task

\* the exception type add_person raises when the database cannot be opened:
\* the type of the storage failures that are no constraint violation
StorageFailureType(name, email, role) ==
    add_person_outcome(name, email, role, FALSE).type

DuplicateEmailCall ==
    /\ call.op = "add_person"
    /\ call.db_ok
    /\ call.email \in {AdaMail, BobMail}
    /\ \E row \in before.Person : row[3] = call.email

\* C6 as claimed: add_person with a valid email a stored Person has fails
\* with an error of a kind other than the one other storage failures have,
\* and exactly one Person row has that email afterwards.
C6_Original ==
    DuplicateEmailCall
    => /\ call # Idle /\ outcome.kind = "raise"
       /\ outcome.type # StorageFailureType(call.name, call.email, call.role)
       /\ Cardinality({row \in Person : row[3] = call.email}) = 1

\* C6, amended: add_person with a valid email a stored Person has raises
\* sqlite3.Error, the type a failure to open the database raises too, with
\* the message of the UNIQUE violation (of the NOT NULL violation when the
\* name is None); the Person table is unchanged and exactly one Person row
\* has that email.
C6_DuplicateEmailRaises ==
    DuplicateEmailCall
    => /\ RaisedType("sqlite3.Error")
       /\ outcome.type = StorageFailureType(call.name, call.email, call.role)
       /\ outcome.msg =
            IF call.name = None
            THEN "Person insertion error: NOT NULL constraint failed: Person.name"
            ELSE "Person insertion error: UNIQUE constraint failed: Person.email"
       /\ StoreUnchanged
       /\ Cardinality({row \in Person : row[3] = call.email}) = 1

\* add_person was called with the email of a stored person, another person
\* being stored too
C6_Witness ==
    /\ DuplicateEmailCall
    /\ call.name # None
    /\ Cardinality(Person) = 2

\* Python's `new or stored` as the specification words it: a supplied value
\* that is None or empty keeps the stored one
Merged(new, stored) == IF new \in {None, Empty} THEN stored ELSE new

PersonBefore(id) == {row \in before.Person : row[1] = id}

\* update_person was called to give a stored person the email another
\* stored person has
EmailClashCall ==
    /\ call.op = "update_person"
    /\ \E row \in PersonBefore(call.person_id) :
          \E other \in before.Person :
             /\ other[1] # row[1]
             /\ other[3] = Merged(call.email, row[3])

\* C7: in every state no two stored Person rows have the same email, and an
\* update_person that would give a person another person's email raises and
\* changes no row.
C7_EmailUnique ==
    /\ \A r1 \in Person : \A r2 \in Person : r1[3] = r2[3] => r1 = r2
    /\ EmailClashCall => (call # Idle /\ outcome.kind = "raise" /\ StoreUnchanged)

\* update_person was refused the email of another stored person
C7_Witness ==
    /\ EmailClashCall
    /\ RaisedType("sqlite3.Error")
    /\ Cardinality(Person) = 2

\* C8: add_task with a status outside {ToDo, InProgress, Done} or a priority
\* outside {High, Medium, Low} raises ValueError (the ValidationError kind)
\* and leaves the Task table, and the rest of the store, as it was, whatever
\* the other arguments are.
C8_InvalidEnumRejected ==
    (/\ call.op = "add_task"
     /\ call.status \notin Statuses \/ call.priority \notin Priorities)
    => /\ RaisedType("ValueError")
       /\ Task = before.Task
       /\ StoreUnchanged

\* add_task was called with an unknown status and otherwise valid arguments,
\* on a store holding the person named and a task
C8_Witness ==
    /\ call.op = "add_task"
    /\ call.status \notin Statuses
    /\ call.priority \in Priorities
    /\ call.start_date \in RealDates
    /\ call.due_date \in RealDates
    /\ call.person_id \in Ids(before.Person)
    /\ before.Task # {}
    /\ RaisedType("ValueError")

\* the call is add_task, or update_task on a stored task, whose start_date or
\* due_date (merged with the stored value for update_task) is no real date
BadDateCall ==
    \/ /\ call.op = "add_task"
       /\ call.start_date \notin RealDates \/ call.due_date \notin RealDates
    \/ /\ call.op = "update_task"
       /\ \E row \in TaskBefore(call.task_id) :
             \/ Merged(call.start_date, row[6]) \notin RealDates
             \/ Merged(call.due_date, row[7]) \notin RealDates

DateErrors == {"Invalid date format", "Invalid date"}

\* the status and priority the call's validators see
EnumsValid ==
    \/ /\ call.op = "add_task"
       /\ call.status \in Statuses
       /\ call.priority \in Priorities
    \/ /\ call.op = "update_task"
       /\ \A row \in TaskBefore(call.task_id) :
             /\ Merged(call.status, row[4]) \in Statuses
             /\ Merged(call.priority, row[5]) \in Priorities

\* C9: add_task, and update_task on a stored task, whose (merged) start_date
\* or due_date is not a real YYYY-MM-DD date raise ValueError and leave every
\* table as it was, the task update_task names included; the error is the
\* date validator's whenever the status and priority checks, which run
\* first, pass.
C9_InvalidDateRejected ==
    BadDateCall
    => /\ RaisedType("ValueError")
       /\ EnumsValid => outcome.msg \in DateErrors
       /\ StoreUnchanged
       /\ call.op = "update_task" => TaskNow(call.task_id) = TaskBefore(call.task_id)

\* update_task was called on a stored task with a date that matches the
\* format and is no calendar date
C9_Witness ==
    /\ call.op = "update_task"
    /\ call.start_date = D20240230
    /\ TaskBefore(call.task_id) # {}
    /\ call.person_id \in Ids(before.Person)
    /\ outcome.kind = "raise"
    /\ outcome.msg = "Invalid date"

C11_AddThenGet ==
    /\ (Returned /\ call.op = "add_person")
       => get_person_outcome(outcome.value.id, TRUE) =
            Return([type |-> "Person", id |-> outcome.value.id,
                    name |-> call.name, email |-> call.email,
                    role |-> call.role])
    /\ (Returned /\ call.op = "add_task")
       => get_task_outcome(outcome.value.id, TRUE) =
            Return([type |-> "Task", id |-> outcome.value.id,
                    title |-> call.title, description |-> call.description,
                    status |-> call.status, priority |-> call.priority,
                    start_date |-> call.start_date, due_date |-> call.due_date,
                    person_id |-> call.person_id,
                    milestone_id |-> call.milestone_id])
    /\ (Returned /\ call.op = "add_milestone")
       => get_milestone_outcome(outcome.value.id, TRUE) =
            Return([type |-> "Milestone", id |-> outcome.value.id,
                    name |-> call.name])

\* add_person returned the second Person of the store, one without a role
C11_Witness ==
    /\ call.op = "add_person"
    /\ Returned
    /\ call.role = None
    /\ outcome.value.id = 2
    /\ Cardinality(Person) = 2

\* C12: in every state of the store, every stored Task has a status in
\* {ToDo, InProgress, Done} and a priority in {High, Medium, Low}.
C12_EnumerationInvariant ==
    \A row \in Task : row[4] \in Statuses /\ row[5] \in Priorities

\* update_task replaced the status and priority of a stored Task, on a store
\* that holds another Task too
C12_Witness ==
    /\ call.op = "update_task"
    /\ Returned
    /\ call.status = InProgress
    /\ call.priority = Medium
    /\ \E row \in TaskBefore(call.task_id) : row[4] = ToDo /\ row[5] = High
    /\ Cardinality(Task) = 2

\* the table and the ids ever handed out that an add call is about
AddedTable ==
    CASE call.op = "add_person" -> "Person"
      [] call.op = "add_milestone" -> "Milestone"
      [] call.op = "add_task" -> "Task"

\* C13: the id an add returns is strictly greater than every id the table
\* handed out before, the ids of rows deleted since included.
C13_IdsNeverReused ==
    (Returned /\ call.op \in {"add_person", "add_milestone", "add_task"})
    => \A id \in before.ever[AddedTable] : outcome.value.id > id

\* an add returned on a table whose row with the largest id had been deleted
C13_Witness ==
    /\ Returned
    /\ call.op \in {"add_person", "add_milestone", "add_task"}
    /\ before.ever[AddedTable] # {}
    /\ MaxOf(before.ever[AddedTable]) \notin Ids(before[AddedTable])

\* a supplied reference that is None or 0 keeps the stored one
MergedInt(new, stored) == IF new \in {NoneInt, 0} THEN stored ELSE new

MilestoneBefore(id) == {row \in before.Milestone : row[1] = id}

\* the text columns of a table that are empty in a row of the given id
EmptyColumns(table, id, columns) ==
    {k \in columns : \E row \in table : row[1] = id /\ row[k] = Empty}

\* C14: an update_person, update_task or update_milestone that returns
\* leaves, in the row of its id, every field supplied as None, empty or 0
\* as it was stored and every other supplied field as supplied (milestone_id
\* of a Task aside), and leaves every other row alone; and no update call
\* makes a stored text field empty.
C14_PartialUpdate ==
    /\ (Returned /\ call.op = "update_person")
       => \E row \in PersonBefore(call.person_id) :
            Person = (before.Person \ {row}) \cup
                       {<<call.person_id, Merged(call.name, row[2]),
                          Merged(call.email, row[3]),
                          Merged(call.role, row[4])>>}
    /\ (Returned /\ call.op = "update_task")
       => \E row \in TaskBefore(call.task_id) :
            \E now \in TaskNow(call.task_id) :
                /\ Task = (before.Task \ {row}) \cup {now}
                /\ now = <<call.task_id, Merged(call.title, row[2]),
                           Merged(call.description, row[3]),
                           Merged(call.status, row[4]),
                           Merged(call.priority, row[5]),
                           Merged(call.start_date, row[6]),
                           Merged(call.due_date, row[7]),
                           MergedInt(call.person_id, row[8]), now[9]>>
    /\ (Returned /\ call.op = "update_milestone")
       => \E row \in MilestoneBefore(call.milestone_id) :
            Milestone = (before.Milestone \ {row}) \cup
                          {<<call.milestone_id, Merged(call.name, row[2])>>}
    /\ call.op = "update_person"
       => EmptyColumns(Person, call.person_id, 2..4)
            \subseteq EmptyColumns(before.Person, call.person_id, 2..4)
    /\ call.op = "update_task"
       => EmptyColumns(Task, call.task_id, 2..7)
            \subseteq EmptyColumns(before.Task, call.task_id, 2..7)
    /\ call.op = "update_milestone"
       => EmptyColumns(Milestone, call.milestone_id, {2})
            \subseteq EmptyColumns(before.Milestone, call.milestone_id, {2})

\* update_person returned for a call that supplied no name, an empty role and
\* a new email
C14_Witness ==
    /\ call.op = "update_person"
    /\ Returned
    /\ call.name = None
    /\ call.role = Empty
    /\ \E row \in PersonBefore(call.person_id) :
          row[3] # call.email /\ row[4] \notin {None, Empty}

\* of the emails the calls are made with, the texts that are not of the form
\* local@domain.tld
MalformedEmails == {BadMail, NoAtMail}

\* C15: add_person with an email text that is not of the form
\* local@domain.tld, and update_person of a stored Person whose merged email
\* (the supplied one, or the stored one when none is supplied) is not of that
\* form, raise ValueError and leave the store unchanged.
C15_EmailGatesPersonWrites ==
    /\ (call.op = "add_person" /\ call.email \in MalformedEmails)
       => RaisedType("ValueError") /\ StoreUnchanged
    /\ (/\ call.op = "update_person"
        /\ \E row \in PersonBefore(call.person_id) :
              Merged(call.email, row[3]) \in MalformedEmails)
       => RaisedType("ValueError") /\ StoreUnchanged

\* update_person was called with a malformed email for a stored Person,
\* another Person being stored too
C15_Witness ==
    /\ call.op = "update_person"
    /\ call.email \in MalformedEmails
    /\ PersonBefore(call.person_id) # {}
    /\ Cardinality(Person) = 2
    /\ outcome.kind = "raise"

\* the table and the id an update or delete call addresses
Addressed ==
    CASE call.op \in {"update_person", "delete_person"}
           -> [table |-> before.Person, id |-> call.person_id]
      [] call.op \in {"update_milestone", "delete_milestone"}
           -> [table |-> before.Milestone, id |-> call.milestone_id]
      [] call.op \in {"update_task", "delete_task"}
           -> [table |-> before.Task, id |-> call.task_id]

Mutations ==
    {"update_person", "update_task", "update_milestone",
     "delete_person", "delete_task", "delete_milestone"}

\* C16: an update or delete of a Person, Task or Milestone called with an id
\* no stored row of that kind has raises LookupError and leaves the three
\* tables unchanged.
C16_MissingIdMutation ==
    (call.op \in Mutations /\ Addressed.id \notin Ids(Addressed.table))
    => RaisedType("LookupError") /\ StoreUnchanged

\* delete_milestone was called with the id of a Milestone deleted before,
\* other Milestones and Tasks being stored
C16_Witness ==
    /\ call.op = "delete_milestone"
    /\ call.milestone_id \in before.ever.Milestone
    /\ call.milestone_id \notin Ids(before.Milestone)
    /\ before.Milestone # {}
    /\ before.Task # {}
    /\ outcome.kind = "raise"

\* a person reference that names no stored Person, or a milestone reference
\* that is neither absent nor 0 and names no stored Milestone
DanglingReference(person_id, milestone_id) ==
    \/ person_id \notin Ids(before.Person)
    \/ milestone_id \notin ({NoneInt, 0} \cup Ids(before.Milestone))

\* C17: add_task, and update_task of a stored Task, whose status, priority
\* and dates (merged, for update_task) are valid and whose person_id (merged)
\* names no stored Person or whose milestone_id (merged) is non-zero and
\* names no stored Milestone, raise LookupError and leave the store
\* unchanged.
C17_DanglingReferenceRejected ==
    /\ (/\ call.op = "add_task"
        /\ call.status \in Statuses
        /\ call.priority \in Priorities
        /\ call.start_date \in RealDates
        /\ call.due_date \in RealDates
        /\ DanglingReference(call.person_id, call.milestone_id))
       => RaisedType("LookupError") /\ StoreUnchanged
    /\ (/\ call.op = "update_task"
        /\ \E row \in TaskBefore(call.task_id) :
              /\ Merged(call.status, row[4]) \in Statuses
              /\ Merged(call.priority, row[5]) \in Priorities
              /\ Merged(call.start_date, row[6]) \in RealDates
              /\ Merged(call.due_date, row[7]) \in RealDates
              /\ DanglingReference(
                     MergedInt(call.person_id, row[8]),
                     IF call.milestone_id = NoneInt THEN row[9]
                     ELSE call.milestone_id))
       => RaisedType("LookupError") /\ StoreUnchanged

\* update_task was called for a stored Task with the id of a Milestone that
\* is not stored, a Person and another Milestone being stored
C17_Witness ==
    /\ call.op = "update_task"
    /\ TaskBefore(call.task_id) # {}
    /\ call.person_id = NoneInt
    /\ call.milestone_id \notin ({NoneInt, 0} \cup Ids(before.Milestone))
    /\ call.status = None
    /\ before.Milestone # {}
    /\ outcome.kind = "raise"

\* C18: add_task called with milestone_id 0, a valid status, priority and
\* dates and a stored Person returns, and stores the Task without a
\* milestone; so does update_task called with milestone_id 0 and no other
\* field for a stored Task.
C18_ZeroMilestoneMeansNone ==
    /\ (/\ call.op = "add_task"
        /\ call.milestone_id = 0
        /\ call.status \in Statuses
        /\ call.priority \in Priorities
        /\ call.start_date \in RealDates
        /\ call.due_date \in RealDates
        /\ call.person_id \in Ids(before.Person))
       => /\ Returned
          /\ \E row \in Task \ before.Task : row[9] = NoneInt
    /\ (/\ call.op = "update_task"
        /\ call.milestone_id = 0
        /\ call.status = None
        /\ call.start_date = None
        /\ call.person_id = NoneInt
        /\ TaskBefore(call.task_id) # {})
       => /\ Returned
          /\ \A row \in TaskNow(call.task_id) : row[9] = NoneInt

Lists == {"get_all_persons", "get_all_tasks", "get_all_milestones"}

\* the fields each list may be sorted by
SortableFields ==
    [get_all_persons |-> {"id", "name", "email", "role"},
     get_all_tasks |-> {"title", "priority", "person_id", "status"},
     get_all_milestones |-> {"name"}]

\* the rows a list call is about
Listed ==
    CASE call.op = "get_all_persons" -> Person
      [] call.op = "get_all_tasks" -> Task
      [] call.op = "get_all_milestones" -> Milestone

\* the stored row a returned record stands for
RowOf(e) ==
    CASE e.type = "Person" -> <<e.id, e.name, e.email, e.role>>
      [] e.type = "Milestone" -> <<e.id, e.name>>
      [] e.type = "Task" -> <<e.id, e.title, e.description, e.status,
                               e.priority, e.start_date, e.due_date,
                               e.person_id, e.milestone_id>>

\* C19: get_all_persons, get_all_tasks and get_all_milestones raise
\* ValueError when sort_by is not one of the kind's sortable fields, and
\* otherwise return a list that has one record for every stored row of the
\* kind, none missing and none twice, in ascending order of the sort_by
\* field.
C19_ListsSorted ==
    call.op \in Lists
    => IF call.sort_by \notin SortableFields[call.op]
       THEN RaisedType("ValueError") /\ StoreUnchanged
       ELSE /\ Returned
            /\ LET items == outcome.value.items
               IN  /\ Len(items) = Cardinality(Listed)
                   /\ {RowOf(items[i]) : i \in 1..Len(items)} = Listed
                   /\ \A i \in 1..(Len(items) - 1) :
                         SqlLeq(items[i][call.sort_by],
                                items[i + 1][call.sort_by],
                                call.sort_by \in IntegerColumns)

\* get_all_persons sorted by name returned two Persons, in another order
\* than the one of their ids
C19_Witness ==
    /\ call.op = "get_all_persons"
    /\ call.sort_by = "name"
    /\ Returned
    /\ Len(outcome.value.items) = 2
    /\ outcome.value.items[1].id > outcome.value.items[2].id

\* a filter that is absent or empty
NoFilter(value) == value \in {None, Empty}

\* the stored Tasks of the milestone a get_tasks_by_milestone call names that
\* match each filter the call supplies
Matching ==
    {row \in Task :
        /\ row[9] = call.milestone_id
        /\ NoFilter(call.status) \/ row[4] = call.status
        /\ NoFilter(call.priority) \/ row[5] = call.priority}

\* C20: get_tasks_by_milestone called with a sort_by it accepts raises
\* ValueError when a supplied status or priority filter is not of its
\* enumeration, raises LookupError when the filters are in order and no
\* Milestone has the id, and otherwise returns one record for each stored
\* Task of that milestone that matches every supplied filter, and no other
\* record; an absent or empty filter matches every Task.
C20_TasksByMilestone ==
    (/\ call.op = "get_tasks_by_milestone"
     /\ call.sort_by \in {"id", "title", "status", "priority", "start_date",
                          "due_date"})
    => /\ StoreUnchanged
       /\ IF \/ ~NoFilter(call.status) /\ call.status \notin Statuses
             \/ ~NoFilter(call.priority) /\ call.priority \notin Priorities
          THEN RaisedType("ValueError")
          ELSE IF call.milestone_id \notin Ids(Milestone)
          THEN RaisedType("LookupError")
          ELSE /\ Returned
               /\ Len(outcome.value.items) = Cardinality(Matching)
               /\ {RowOf(outcome.value.items[i]) :
                     i \in 1..Len(outcome.value.items)} = Matching

\* get_tasks_by_milestone with a status filter returned one of the two Tasks
\* of the milestone
C20_Witness ==
    /\ call.op = "get_tasks_by_milestone"
    /\ call.status = ToDo
    /\ Returned
    /\ Len(outcome.value.items) = 1
    /\ Cardinality({row \in Task : row[9] = call.milestone_id}) = 2

\* C21: get_tasks_by_milestone called without filters for a stored Milestone
\* accepts a sort_by exactly when get_all_tasks accepts the same sort_by.
C21_SameSortFields ==
    (/\ call.op = "get_tasks_by_milestone"
     /\ call.milestone_id \in Ids(Milestone)
     /\ NoFilter(call.status)
     /\ NoFilter(call.priority))
    => (Returned
        <=> \A out \in get_all_tasks_outcomes(call.sort_by, TRUE) : ~Raised(out))

\* C22: in every state of the store every stored Person has a non-empty name
\* and every stored Task a non-empty title, and an add_task with an empty
\* title adds no row.
C22_NonEmptyText ==
    /\ \A row \in Person : row[2] # Empty
    /\ \A row \in Task : row[2] # Empty
    /\ (call.op = "add_task" /\ call.title = Empty) => Task = before.Task

\* the lengths of the twelve months of a common year
MonthLengths == <<31, 28, 31, 30, 31, 30, 31, 31, 30, 31, 30, 31>>

\* a real calendar date: a year from 1 on, a month of the year and a day of
\* the month, February having 29 days in the years divisible by 4 that are
\* not centuries and in the centuries divisible by 400
RealCalendarDate(y, m, d) ==
    /\ y >= 1
    /\ m \in 1..12
    /\ d >= 1
    /\ d <= MonthLengths[m]
              + (IF m = 2 /\ y % 4 = 0 /\ (y % 100 # 0 \/ y % 400 = 0)
                 THEN 1 ELSE 0)

C27_UpdateThenGet ==
    /\ (Returned /\ call.op = "update_person")
       => get_person_outcome(call.person_id, TRUE) = Return(outcome.value)
    /\ (Returned /\ call.op = "update_task")
       => get_task_outcome(call.task_id, TRUE) = Return(outcome.value)
    /\ (Returned /\ call.op = "update_milestone")
       => get_milestone_outcome(call.milestone_id, TRUE) = Return(outcome.value)

\* update_task returned after it moved a stored Task to a Milestone
C27_Witness ==
    /\ call.op = "update_task"
    /\ Returned
    /\ call.milestone_id \in Ids(Milestone)
    /\ \E row \in TaskBefore(call.task_id) : row[9] # call.milestone_id

\* the rows of a table whose id is not the given one
Others(table, id) == {row \in table : row[1] # id}

Updates == {"update_person", "update_task", "update_milestone"}

\* C28: update_person, update_task, update_milestone and delete_task leave
\* every row whose id is not the given one, in every table, as it was; an
\* update leaves the number of rows of every table and the ids of the
\* addressed table as they were; delete_task leaves the Person and Milestone
\* tables as they were.
C28_SingleRowFrame ==
    /\ call.op \in Updates \cup {"delete_task"}
       => /\ Others(Addressed.table, Addressed.id)
               = Others(CASE call.op = "update_person" -> Person
                          [] call.op = "update_milestone" -> Milestone
                          [] OTHER -> Task, Addressed.id)
          /\ call.op # "update_person" => Person = before.Person
          /\ call.op # "update_milestone" => Milestone = before.Milestone
          /\ call.op \notin {"update_task", "delete_task"} => Task = before.Task
    /\ call.op \in Updates
       => /\ Cardinality(Person) = Cardinality(before.Person)
          /\ Cardinality(Milestone) = Cardinality(before.Milestone)
          /\ Cardinality(Task) = Cardinality(before.Task)
          /\ Ids(Person) = Ids(before.Person)
          /\ Ids(Milestone) = Ids(before.Milestone)
          /\ Ids(Task) = Ids(before.Task)

\* update_milestone returned for one of two stored Milestones, with a new
\* name
C28_Witness ==
    /\ call.op = "update_milestone"
    /\ Returned
    /\ Cardinality(Milestone) = 2
    /\ Milestone # before.Milestone

(***************************************************************************)
(* Properties of the connections and of two callers                        *)
(***************************************************************************)
\* the caller's call has returned or raised
Answered(c) == pc[c] # Idle /\ pc[c].at = "done"

\* the connections a caller's call has opened that are not closed
Open(c) == {i \in DOMAIN connections[c] : ~connections[c][i].closed}

\* C23: whenever a call has returned or raised, and between calls, every
\* connection the call opened has been closed: no connection is open.
C23_ConnectionsReleased ==
    \A c \in Callers : (pc[c] = Idle \/ Answered(c)) => Open(c) = {}

\* C24: no call opens more than one connection.
C24_OneConnectionPerCall ==
    \A c \in Callers : Len(connections[c]) <= 1

\* the statements that write
Writes == {"INSERT", "UPDATE", "DELETE"}

\* C25: in every state every connection a call has opened has foreign-key
\* enforcement on, the ones an INSERT, UPDATE or DELETE ran on among them;
\* and so, whatever the two callers' steps interleave to, every stored Task
\* refers to a stored Person and to no Milestone or a stored one.
C25_ForeignKeysOn ==
    /\ \A c \in Callers : \A i \in DOMAIN connections[c] :
          connections[c][i].foreign_keys
    /\ \A row \in Task :
          /\ row[8] \in Ids(Person)
          /\ row[9] = NoneInt \/ row[9] \in Ids(Milestone)

\* a delete_person has returned, its DELETE ran on the second connection of
\* the call, and the one task ever added went with its person
C25_Witness ==
    \E c \in Callers :
       /\ Answered(c)
       /\ pc[c].op = "delete_person"
       /\ pc[c].outcome.kind = "return"
       /\ Len(connections[c]) = 2
       /\ connections[c][2].statement \in Writes
       /\ sqlite_sequence.Task = 1
       /\ Task = {}
       /\ \A d \in Callers : pc[d].op # "delete_task"

\* C29: an add_task or update_task whose person was deleted by the other
\* caller between its person check and its INSERT or UPDATE raises the
\* storage error, and in every state every stored Task refers to a stored
\* Person.
C29_WriteAfterDeleteRejected ==
    /\ \A c \in Callers :
          (/\ Answered(c)
           /\ pc[c].op \in {"add_task", "update_task"}
           /\ pc[c].gone)
          => (/\ Raised(pc[c].outcome)
              /\ pc[c].outcome.type = "sqlite3.Error")
    /\ \A row \in Task : row[8] \in Ids(Person)

\* C30: an update_person, update_milestone or update_task that returns a
\* record ran its UPDATE on a stored row of that id: the row was not deleted
\* between the update's read and its UPDATE.
C30_UpdateOfStoredRow ==
    \A c \in Callers :
       (/\ Answered(c)
        /\ pc[c].op \in {"update_person", "update_milestone", "update_task"}
        /\ pc[c].outcome.kind = "return")
       => pc[c].rowcount = 1

====
